---- MODULE Spec2Model ----
(***************************************************************************)
(* The OpenAPI-to-tool converter of src/server.py (SwaggerToMCPConverter)  *)
(* and the registries that own converters (src/test.mcp1.py, src/main.py). *)
(*                                                                         *)
(* Python strings are TLA+ strings; TLC evaluates Len, \o and SubSeq on    *)
(* them, so str.replace, str.lower, str.rstrip, json.dumps and json.loads  *)
(* are computed character by character.                                    *)
(*                                                                         *)
(* A Python dict is a sequence of <<key, value>> pairs with distinct keys, *)
(* in insertion order (the order .items() iterates in).                    *)
(***************************************************************************)
EXTENDS Integers, Sequences, FiniteSets, TLC

VARIABLES
    swagger_doc,      \* self.swagger_doc of the converter
    base_url,         \* self.base_url (already rstrip('/')-ed by __init__)
    listed,           \* what the last parse_swagger_to_tools call returned, or None
    call,             \* the execute_tool call in progress or just finished, or None
    inflight,         \* the HTTP request awaiting its response, or None
    ret,              \* how the last execute_tool call ended, or None
    hash_order,       \* the arrangement list(set(...)) comes out in, in this process
    user_converters,  \* test.mcp1.py: user_id -> converter id
    user_servers,     \* test.mcp1.py: user_id -> converter id its server closes over
    sse_sessions,     \* test.mcp1.py: the SSE connections made, each with its server
    mcp_apps,         \* main.py: the set of loaded mcp ids
    mcp_converter,    \* main.py: mcp_id -> sequence of converter ids created for it
    clients,          \* converter id -> [closes |-> number of aclose() calls]
    stopped,          \* the process has run its shutdown handlers
    user_sessions,    \* test.mcp_server.py: uid -> list of session ids
    streams,          \* test.mcp_server.py: the event streams that are open
    tokens,           \* auth.py: access token -> token data
    now,              \* auth.py: what time.time() returns
    issued,           \* auth.py: the tokens the token endpoint has returned
    verified,         \* auth.py: the last verify_bearer_token call and its result
    afree             \* afree.py: how far the program has come

coreVars == <<swagger_doc, base_url, listed, call, inflight, ret, hash_order>>
lifeVars == <<user_converters, user_servers, sse_sessions, mcp_apps, mcp_converter,
              clients, stopped>>
accessVars == <<user_sessions, streams, tokens, now, issued, verified, afree>>
vars == <<swagger_doc, base_url, listed, call, inflight, ret, hash_order,
          user_converters, user_servers, sse_sessions, mcp_apps, mcp_converter,
          clients, stopped,
          user_sessions, streams, tokens, now, issued, verified, afree>>

None == [none |-> TRUE]

(***************************************************************************)
(* Python values and dicts                                                 *)
(***************************************************************************)
PyInt(n) == [int |-> n]
PyStr(s) == [str |-> s]
PyList(xs) == [arr |-> xs]
PyDict(items) == [obj |-> items]

IsInt(v) == "int" \in DOMAIN v
IsStr(v) == "str" \in DOMAIN v
IsList(v) == "arr" \in DOMAIN v
IsDict(v) == "obj" \in DOMAIN v
IsNone(v) == "none" \in DOMAIN v

Range(s) == {s[i] : i \in DOMAIN s}

\* keys of a dict, in iteration order
Keys(items) == [i \in DOMAIN items |-> items[i][1]]

HasKey(items, k) == \E i \in DOMAIN items : items[i][1] = k

\* d[k] for a key that is present
Lookup(items, k) == items[CHOOSE i \in DOMAIN items : items[i][1] = k][2]

\* d.get(k, default)
Get(items, k, default) == IF HasKey(items, k) THEN Lookup(items, k) ELSE default

\* d[k] = v: an existing key keeps its position, a new key goes last
DictSet(items, k, v) ==
    IF HasKey(items, k)
    THEN [i \in DOMAIN items |-> IF items[i][1] = k THEN <<k, v>> ELSE items[i]]
    ELSE Append(items, <<k, v>>)

(***************************************************************************)
(* Strings                                                                 *)
(***************************************************************************)
Ch(s, i) == IF i >= 1 /\ i <= Len(s) THEN SubSeq(s, i, i) ELSE ""

StartsWithAt(s, i, pre) ==
    /\ i + Len(pre) - 1 <= Len(s)
    /\ SubSeq(s, i, i + Len(pre) - 1) = pre

\* str.replace(old, new) for a non-empty old, from position i on
RECURSIVE ReplaceFrom(_, _, _, _)
ReplaceFrom(s, i, old, new) ==
    IF i > Len(s) THEN ""
    ELSE IF StartsWithAt(s, i, old)
         THEN new \o ReplaceFrom(s, i + Len(old), old, new)
         ELSE Ch(s, i) \o ReplaceFrom(s, i + 1, old, new)

Replace(s, old, new) == ReplaceFrom(s, 1, old, new)

\* str.rstrip('/')
RECURSIVE RStripSlash(_)
RStripSlash(s) ==
    IF Len(s) > 0 /\ Ch(s, Len(s)) = "/"
    THEN RStripSlash(SubSeq(s, 1, Len(s) - 1))
    ELSE s

UpperLetters == <<"A","B","C","D","E","F","G","H","I","J","K","L","M",
                  "N","O","P","Q","R","S","T","U","V","W","X","Y","Z">>
LowerLetters == <<"a","b","c","d","e","f","g","h","i","j","k","l","m",
                  "n","o","p","q","r","s","t","u","v","w","x","y","z">>

LowerChar(c) ==
    IF \E i \in DOMAIN UpperLetters : UpperLetters[i] = c
    THEN LowerLetters[CHOOSE i \in DOMAIN UpperLetters : UpperLetters[i] = c]
    ELSE c

\* str.lower(), on the characters lo..hi
RECURSIVE LowerRange(_, _, _)
LowerRange(s, lo, hi) ==
    IF lo > hi THEN ""
    ELSE IF lo = hi THEN LowerChar(Ch(s, lo))
    ELSE LET mid == (lo + hi) \div 2 IN
         LowerRange(s, lo, mid) \o LowerRange(s, mid + 1, hi)

Lower(s) == LowerRange(s, 1, Len(s))

\* the truth value Python gives a JSON value in a condition
Truthy(v) ==
    IF IsNone(v) THEN FALSE
    ELSE IF "bool" \in DOMAIN v THEN v.bool
    ELSE IF IsInt(v) THEN v.int # 0
    ELSE IF IsStr(v) THEN v.str # ""
    ELSE IF IsList(v) THEN Len(v.arr) > 0
    ELSE Len(v.obj) > 0

\* str(value) of an int or a str
str(v) == IF IsInt(v) THEN ToString(v.int) ELSE v.str

(***************************************************************************)
(* json.dumps and json.loads (response.json()).  Numbers are integers;     *)
(* string escapes are those of the characters the model's texts contain    *)
(* (quote, backslash, newline, tab).                                       *)
(***************************************************************************)
PyBool(b) == [bool |-> b]
IsBool(v) == "bool" \in DOMAIN v

EscapeChar(c) ==
    IF c = "\"" THEN "\\\""
    ELSE IF c = "\\" THEN "\\\\"
    ELSE IF c = "\n" THEN "\\n"
    ELSE IF c = "\t" THEN "\\t"
    ELSE c

RECURSIVE EscapeRange(_, _, _)
EscapeRange(s, lo, hi) ==
    IF lo > hi THEN ""
    ELSE IF lo = hi THEN EscapeChar(Ch(s, lo))
    ELSE LET mid == (lo + hi) \div 2 IN
         EscapeRange(s, lo, mid) \o EscapeRange(s, mid + 1, hi)

\* a str as json.dumps writes it
JsonString(s) == "\"" \o EscapeRange(s, 1, Len(s)) \o "\""

RECURSIVE Spaces(_)
Spaces(n) == IF n <= 0 THEN "" ELSE " " \o Spaces(n - 1)

\* json.dumps(v, indent=indent) at nesting depth level; indent = -1 is indent=None
RECURSIVE Dumps(_, _, _)
RECURSIVE DumpItems(_, _, _, _, _)
DumpItems(xs, i, isObj, indent, level) ==
    IF i > Len(xs) THEN ""
    ELSE LET sep == IF i = 1 THEN ""
                    ELSE IF indent < 0 THEN ", "
                    ELSE ","
             nl  == IF indent < 0 THEN "" ELSE "\n" \o Spaces(indent * level)
             one == IF isObj
                    THEN JsonString(xs[i][1]) \o ": " \o Dumps(xs[i][2], indent, level)
                    ELSE Dumps(xs[i], indent, level)
         IN  sep \o nl \o one \o DumpItems(xs, i + 1, isObj, indent, level)

Dumps(v, indent, level) ==
    IF IsNone(v) THEN "null"
    ELSE IF IsBool(v) THEN (IF v.bool THEN "true" ELSE "false")
    ELSE IF IsInt(v) THEN ToString(v.int)
    ELSE IF IsStr(v) THEN JsonString(v.str)
    ELSE LET xs    == IF IsDict(v) THEN v.obj ELSE v.arr
             open  == IF IsDict(v) THEN "{" ELSE "["
             close == IF IsDict(v) THEN "}" ELSE "]"
             nl    == IF indent < 0 THEN "" ELSE "\n" \o Spaces(indent * level)
         IN  IF Len(xs) = 0 THEN open \o close
             ELSE open \o DumpItems(xs, 1, IsDict(v), indent, level + 1) \o nl \o close

\* json.dumps(v)
json_dumps(v) == Dumps(v, -1, 0)

\* json.dumps(v, indent=2)
json_dumps_indent2(v) == Dumps(v, 2, 0)

JsonFail == [ok |-> FALSE]

IsWs(c) == c = " " \/ c = "\n" \/ c = "\t"

RECURSIVE SkipWs(_, _)
SkipWs(s, i) == IF IsWs(Ch(s, i)) THEN SkipWs(s, i + 1) ELSE i

DigitChars == <<"0","1","2","3","4","5","6","7","8","9">>
IsDigit(c) == \E d \in DOMAIN DigitChars : DigitChars[d] = c
DigitVal(c) == (CHOOSE d \in DOMAIN DigitChars : DigitChars[d] = c) - 1

\* the digits from position i on: [val, pos]
RECURSIVE ScanDigits(_, _, _)
ScanDigits(s, i, acc) ==
    IF IsDigit(Ch(s, i)) THEN ScanDigits(s, i + 1, acc * 10 + DigitVal(Ch(s, i)))
    ELSE [val |-> acc, pos |-> i]

\* the number of consecutive backslashes that end right before position k
RECURSIVE BackslashRun(_, _)
BackslashRun(s, k) == IF Ch(s, k - 1) = "\\" THEN 1 + BackslashRun(s, k - 1) ELSE 0

\* position k holds a character that a backslash right before it escapes
IsEscaped(s, k) == BackslashRun(s, k) % 2 = 1

\* the character of a string literal that position k contributes
UnescapeAt(s, k) ==
    LET c == Ch(s, k) IN
    IF IsEscaped(s, k)
    THEN (IF c = "n" THEN "\n" ELSE IF c = "t" THEN "\t" ELSE c)
    ELSE IF c = "\\" THEN "" ELSE c

RECURSIVE UnescapeRange(_, _, _)
UnescapeRange(s, lo, hi) ==
    IF lo > hi THEN ""
    ELSE IF lo = hi THEN UnescapeAt(s, lo)
    ELSE LET mid == (lo + hi) \div 2 IN
         UnescapeRange(s, lo, mid) \o UnescapeRange(s, mid + 1, hi)

\* a string literal whose opening quote is right before position i
ScanString(s, i) ==
    LET Closes(k) == Ch(s, k) = "\"" /\ ~IsEscaped(s, k)
        Bad(k) == \/ Ch(s, k) = "\n" \/ Ch(s, k) = "\t"
                  \/ (IsEscaped(s, k) /\ Ch(s, k) \notin {"\"", "\\", "/", "n", "t"})
        ends == {k \in i..Len(s) : Closes(k)}
    IN  IF ends = {} THEN JsonFail
        ELSE LET end == CHOOSE k \in ends : \A j \in ends : k <= j IN
             IF \E k \in i..(end - 1) : Bad(k) THEN JsonFail
             ELSE [ok |-> TRUE, val |-> UnescapeRange(s, i, end - 1), pos |-> end + 1]

RECURSIVE ParseValue(_, _)
RECURSIVE ParseMembers(_, _, _)
RECURSIVE ParseElements(_, _, _)

\* the members of an object after "{" or ",": a duplicate key keeps the last value
ParseMembers(s, i, acc) ==
    LET k == SkipWs(s, i) IN
    IF Ch(s, k) # "\"" THEN JsonFail
    ELSE LET key == ScanString(s, k + 1) IN
         IF ~key.ok THEN JsonFail
         ELSE LET c == SkipWs(s, key.pos) IN
              IF Ch(s, c) # ":" THEN JsonFail
              ELSE LET v == ParseValue(s, SkipWs(s, c + 1)) IN
                   IF ~v.ok THEN JsonFail
                   ELSE LET e    == SkipWs(s, v.pos)
                            acc2 == DictSet(acc, key.val, v.val)
                        IN  IF Ch(s, e) = "," THEN ParseMembers(s, e + 1, acc2)
                            ELSE IF Ch(s, e) = "}"
                                 THEN [ok |-> TRUE, val |-> PyDict(acc2), pos |-> e + 1]
                                 ELSE JsonFail

ParseElements(s, i, acc) ==
    LET v == ParseValue(s, SkipWs(s, i)) IN
    IF ~v.ok THEN JsonFail
    ELSE LET e == SkipWs(s, v.pos) IN
         IF Ch(s, e) = "," THEN ParseElements(s, e + 1, Append(acc, v.val))
         ELSE IF Ch(s, e) = "]"
              THEN [ok |-> TRUE, val |-> PyList(Append(acc, v.val)), pos |-> e + 1]
              ELSE JsonFail

ParseValue(s, i) ==
    LET c == Ch(s, i) IN
    IF c = "{"
    THEN IF Ch(s, SkipWs(s, i + 1)) = "}"
         THEN [ok |-> TRUE, val |-> PyDict(<<>>), pos |-> SkipWs(s, i + 1) + 1]
         ELSE ParseMembers(s, i + 1, <<>>)
    ELSE IF c = "["
    THEN IF Ch(s, SkipWs(s, i + 1)) = "]"
         THEN [ok |-> TRUE, val |-> PyList(<<>>), pos |-> SkipWs(s, i + 1) + 1]
         ELSE ParseElements(s, i + 1, <<>>)
    ELSE IF c = "\""
    THEN LET r == ScanString(s, i + 1) IN
         IF r.ok THEN [ok |-> TRUE, val |-> PyStr(r.val), pos |-> r.pos] ELSE JsonFail
    ELSE IF StartsWithAt(s, i, "null") THEN [ok |-> TRUE, val |-> None, pos |-> i + 4]
    ELSE IF StartsWithAt(s, i, "true") THEN [ok |-> TRUE, val |-> PyBool(TRUE), pos |-> i + 4]
    ELSE IF StartsWithAt(s, i, "false") THEN [ok |-> TRUE, val |-> PyBool(FALSE), pos |-> i + 5]
    ELSE IF IsDigit(c)
    THEN LET r == ScanDigits(s, i, 0) IN
         IF c = "0" /\ r.pos > i + 1 THEN JsonFail
         ELSE [ok |-> TRUE, val |-> PyInt(r.val), pos |-> r.pos]
    ELSE IF c = "-" /\ IsDigit(Ch(s, i + 1))
    THEN LET r == ScanDigits(s, i + 1, 0) IN
         [ok |-> TRUE, val |-> PyInt(0 - r.val), pos |-> r.pos]
    ELSE JsonFail

\* json.loads(s): [ok, val]; ok = FALSE is the ValueError
json_loads(s) ==
    LET r == ParseValue(s, SkipWs(s, 1)) IN
    IF r.ok /\ SkipWs(s, r.pos) > Len(s)
    THEN [ok |-> TRUE, val |-> r.val]
    ELSE JsonFail

(***************************************************************************)
(* SwaggerToMCPConverter: the compiler (parse_swagger_to_tools) and the    *)
(* dispatcher (execute_tool, _make_api_call) of src/server.py.             *)
(*                                                                         *)
(* A document is the JSON value the converter was built with.  An outcome  *)
(* of a call is [returned |-> value] or [raised |-> exception class].      *)
(***************************************************************************)
Returned(v) == [returned |-> v]
Raised(e) == [raised |-> e]
IsReturned(o) == "returned" \in DOMAIN o
IsRaised(o) == "raised" \in DOMAIN o

\* the method keys parse_swagger_to_tools compiles
CompiledMethods == {"get", "post", "put", "delete", "patch"}

\* the (path, method, spec) triples in the order the nested loops over
\* paths.items() and methods.items() visit them
RECURSIVE PathEntries(_, _, _)
PathEntries(path, items, i) ==
    IF i > Len(items) THEN <<>>
    ELSE <<[path |-> path, method |-> items[i][1], spec |-> items[i][2]]>>
         \o PathEntries(path, items, i + 1)

RECURSIVE DocEntriesFrom(_, _)
DocEntriesFrom(paths, i) ==
    IF i > Len(paths) THEN <<>>
    ELSE PathEntries(paths[i][1], paths[i][2].obj, 1) \o DocEntriesFrom(paths, i + 1)

DocEntries(doc) == DocEntriesFrom(Get(doc.obj, "paths", PyDict(<<>>)).obj, 1)

\* spec.get("operationId", f"{method}_{path.replace('/', '_')}")
\* a fallback that also drops the braces of path templates
FallbackName_WithoutBraces(path, method) ==
    method \o "_" \o Replace(Replace(Replace(path, "/", "_"), "{", ""), "}", "")

FallbackName(path, method) == method \o "_" \o Replace(path, "/", "_")

OperationId(path, method, spec) ==
    Get(spec.obj, "operationId", PyStr(FallbackName(path, method)))

(***************************************************************************)
(* The schema resolver: resolve_ref and extract_properties_from_schema.    *)
(* What Python does with a value that is not the expected mapping or list  *)
(* is part of the functions: x.get of a non-dict raises AttributeError,    *)
(* iterating an int, a bool or None raises TypeError.                      *)
(***************************************************************************)
\* k in v: a key of a dict, an element of a list, a substring of a str
PyIn(k, v) ==
    IF IsDict(v) THEN Returned(HasKey(v.obj, k))
    ELSE IF IsList(v) THEN Returned(\E i \in DOMAIN v.arr : v.arr[i] = PyStr(k))
    ELSE IF IsStr(v) THEN Returned(\E i \in 1..Len(v.str) : StartsWithAt(v.str, i, k))
    ELSE Raised("TypeError")

\* the values a for loop over v visits: the elements of a list, the keys of
\* a dict, the characters of a str
Iter(v) ==
    IF IsList(v) THEN Returned(v.arr)
    ELSE IF IsDict(v) THEN Returned([i \in DOMAIN v.obj |-> PyStr(v.obj[i][1])])
    ELSE IF IsStr(v) THEN Returned([i \in 1..Len(v.str) |-> PyStr(Ch(v.str, i))])
    ELSE Raised("TypeError")

\* ref_path.split("/")[-1]
LastSegment(s) ==
    LET slashes == {i \in 1..Len(s) : Ch(s, i) = "/"} IN
    IF slashes = {} THEN s
    ELSE LET last == CHOOSE i \in slashes : \A j \in slashes : j <= i IN
         SubSeq(s, last + 1, Len(s))

\* self.schemas as __init__ computes it from the document
SchemasOf(doc) ==
    Get(Get(doc.obj, "components", PyDict(<<>>)).obj, "schemas", PyDict(<<>>))

\* a resolver that indexes self.schemas[schema_name] instead of using .get
ResolveRef_MissingRaises(schemas, ref_or_schema) ==
    IF ~IsDict(ref_or_schema) THEN Returned(PyDict(<<>>))
    ELSE IF ~HasKey(ref_or_schema.obj, "$ref") THEN Returned(ref_or_schema)
    ELSE LET ref_path == Lookup(ref_or_schema.obj, "$ref") IN
         IF ~IsStr(ref_path) THEN Raised("AttributeError")
         ELSE IF ~StartsWithAt(ref_path.str, 1, "#/components/schemas/")
         THEN Returned(ref_or_schema)
         ELSE IF ~IsDict(schemas) THEN Raised("TypeError")
         ELSE IF ~HasKey(schemas.obj, LastSegment(ref_path.str)) THEN Raised("KeyError")
         ELSE Returned(Lookup(schemas.obj, LastSegment(ref_path.str)))

ResolveRef(schemas, ref_or_schema) ==
    IF ~IsDict(ref_or_schema) THEN Returned(PyDict(<<>>))
    ELSE IF ~HasKey(ref_or_schema.obj, "$ref") THEN Returned(ref_or_schema)
    ELSE LET ref_path == Lookup(ref_or_schema.obj, "$ref") IN
         IF ~IsStr(ref_path) THEN Raised("AttributeError")
         ELSE IF ~StartsWithAt(ref_path.str, 1, "#/components/schemas/") THEN Returned(ref_or_schema)
         ELSE IF ~IsDict(schemas) THEN Raised("AttributeError")
         ELSE Returned(Get(schemas.obj, LastSegment(ref_path.str), PyDict(<<>>)))

\* In the definitions below, Then(r, F) is a statement that uses the value
\* of a call: the exception the call raised leaves the function, else the
\* statement runs with the value the call returned.

\* d.update(other) for a dict d with string keys
RECURSIVE UpdatePairs(_, _, _)
UpdatePairs(items, pairs, i) ==
    IF i > Len(pairs) THEN Returned(items)
    ELSE LET e == Iter(pairs[i]) IN
         IF IsRaised(e) THEN Raised("TypeError")
         ELSE IF Len(e.returned) # 2 THEN Raised("ValueError")
         ELSE IF IsList(e.returned[1]) \/ IsDict(e.returned[1]) THEN Raised("TypeError")
         ELSE UpdatePairs(DictSet(items, e.returned[1].str, e.returned[2]), pairs, i + 1)

\* an update that keeps the value of a key the dict already has
UpdateItems_KeepsExisting(items, other, i) ==
    items \o SelectSeq(other, LAMBDA e : ~HasKey(items, e[1]))

RECURSIVE UpdateItems(_, _, _)
UpdateItems(items, other, i) ==
    IF i > Len(other) THEN items
    ELSE UpdateItems(DictSet(items, other[i][1], other[i][2]), other, i + 1)

Update(items, other) ==
    LET Then(r, F(_)) == IF IsRaised(r) THEN r ELSE F(r.returned) IN
    IF IsDict(other) THEN Returned(UpdateItems(items, other.obj, 1))
    ELSE Then(Iter(other), LAMBDA it : UpdatePairs(items, it, 1))

\* xs.extend(other)
Extend(xs, other) ==
    LET Then(r, F(_)) == IF IsRaised(r) THEN r ELSE F(r.returned) IN
    Then(Iter(other), LAMBDA it : Returned(xs \o it))

\* list(xs) in place of list(set(xs)): repetitions stay
ListOfSet_KeepsRepetitions(xs, order) ==
    IF \E i \in DOMAIN xs : IsList(xs[i]) \/ IsDict(xs[i]) THEN Raised("TypeError")
    ELSE Returned(xs)

\* list(set(xs)): the distinct elements of xs in the iteration order of the
\* set, which the language leaves open; order selects the arrangement
\* (Distinct: xs without repetitions; Permute: the k-th arrangement of d)
ListOfSet(xs, order) ==
    LET RECURSIVE Distinct(_, _, _)
        Distinct(ys, i, acc) ==
            IF i > Len(ys) THEN acc
            ELSE IF \E j \in DOMAIN acc : acc[j] = ys[i] THEN Distinct(ys, i + 1, acc)
            ELSE Distinct(ys, i + 1, Append(acc, ys[i]))
        RECURSIVE Permute(_, _)
        Permute(d, k) ==
            IF Len(d) = 0 THEN <<>>
            ELSE LET j == (k % Len(d)) + 1 IN
                 <<d[j]>> \o Permute(SubSeq(d, 1, j - 1) \o SubSeq(d, j + 1, Len(d)),
                                     k \div Len(d))
    IN  IF \E i \in DOMAIN xs : IsList(xs[i]) \/ IsDict(xs[i]) THEN Raised("TypeError")
        ELSE Returned(Permute(Distinct(xs, 1, <<>>), order))

\* the arrangements a set of strings may be listed in: CPython's string hash
\* is seeded per process, so list(set(...)) may come out in any of them
MaxOrder == 5
HashOrders == 0..MaxOrder

\* the for loop over resolved_schema["allOf"]
RECURSIVE MergeAllOf(_, _, _, _, _)
MergeAllOf(schemas, members, i, merged_props, merged_required) ==
    LET Then(r, F(_)) == IF IsRaised(r) THEN r ELSE F(r.returned) IN
    IF i > Len(members)
    THEN Returned([properties |-> merged_props, required |-> merged_required])
    ELSE Then(ResolveRef(schemas, members[i]), LAMBDA sub_resolved :
         IF ~IsDict(sub_resolved) THEN Raised("AttributeError")
         ELSE Then(Update(merged_props,
                          Get(sub_resolved.obj, "properties", PyDict(<<>>))),
                   LAMBDA props :
              Then(Extend(merged_required,
                          Get(sub_resolved.obj, "required", PyList(<<>>))),
                   LAMBDA req :
              MergeAllOf(schemas, members, i + 1, props, req))))

\* the for loop over the options of a schema: the first option that resolves
\* to an object schema replaces resolved_schema
RECURSIVE FirstObjectOption(_, _, _, _)
FirstObjectOption(schemas, options, i, resolved_schema) ==
    LET Then(r, F(_)) == IF IsRaised(r) THEN r ELSE F(r.returned) IN
    IF i > Len(options) THEN Returned(resolved_schema)
    ELSE Then(ResolveRef(schemas, options[i]), LAMBDA opt_resolved :
         IF ~IsDict(opt_resolved) THEN Raised("AttributeError")
         ELSE IF Get(opt_resolved.obj, "type", None) = PyStr("object")
                 \/ HasKey(opt_resolved.obj, "properties")
              THEN Returned(opt_resolved)
              ELSE FirstObjectOption(schemas, options, i + 1, resolved_schema))

\* resolved_schema.get("anyOf") or resolved_schema.get("oneOf")
Options(schema) ==
    IF Truthy(Get(schema.obj, "anyOf", None))
    THEN Get(schema.obj, "anyOf", None)
    ELSE Get(schema.obj, "oneOf", None)

\* resolved_schema after the composition branches, for a mapping: the
\* object synthesized from the members of allOf, else the first object
\* option of anyOf/oneOf, else the schema itself
Flatten(schemas, resolved_schema, order) ==
    LET Then(r, F(_)) == IF IsRaised(r) THEN r ELSE F(r.returned) IN
    IF HasKey(resolved_schema.obj, "allOf")
    THEN Then(Iter(Lookup(resolved_schema.obj, "allOf")), LAMBDA members :
         Then(MergeAllOf(schemas, members, 1, <<>>, <<>>), LAMBDA merged :
         Then(ListOfSet(merged.required, order), LAMBDA required :
         Returned(PyDict(<<
             <<"type", PyStr("object")>>,
             <<"properties", PyDict(merged.properties)>>,
             <<"required", PyList(required)>>,
             <<"additionalProperties", PyBool(FALSE)>> >>)))))
    ELSE IF HasKey(resolved_schema.obj, "anyOf") \/ HasKey(resolved_schema.obj, "oneOf")
    THEN Then(Iter(Options(resolved_schema)), LAMBDA options :
         FirstObjectOption(schemas, options, 1, resolved_schema))
    ELSE Returned(resolved_schema)

\* the for loop over the options of a property: the first type that is
\* neither empty nor "null", "string" when there is none
RECURSIVE FirstNonNullType(_, _)
FirstNonNullType(options, i) ==
    IF i > Len(options) THEN Returned(PyStr("string"))
    ELSE IF ~IsDict(options[i]) THEN Raised("AttributeError")
    ELSE LET opt_type == Get(options[i].obj, "type", None) IN
         IF Truthy(opt_type) /\ opt_type # PyStr("null") THEN Returned(opt_type)
         ELSE FirstNonNullType(options, i + 1)

\* prop_type of a property that is not emitted as a nested object
LeafType(resolved_prop) ==
    LET Then(r, F(_)) == IF IsRaised(r) THEN r ELSE F(r.returned) IN
    IF HasKey(resolved_prop.obj, "anyOf") \/ HasKey(resolved_prop.obj, "oneOf")
    THEN Then(Iter(Options(resolved_prop)), LAMBDA options :
         FirstNonNullType(options, 1))
    ELSE Returned(Get(resolved_prop.obj, "type", PyStr("string")))

\* {"type": prop_type, "description": resolved_prop.get("title", ...)}
LeafProperty(resolved_prop, prop_type) ==
    PyDict(<< <<"type", prop_type>>,
              <<"description",
                Get(resolved_prop.obj, "title",
                    Get(resolved_prop.obj, "description", PyStr("")))>> >>)

\* nested_schema built from what the recursive call returned
NestedSchema(resolved_prop, nested_props, nested_required) ==
    LET base == << <<"type", PyStr("object")>>,
                   <<"properties", PyDict(nested_props)>>,
                   <<"additionalProperties", PyBool(FALSE)>> >>
        withRequired == IF Truthy(nested_required)
                        THEN Append(base, <<"required", nested_required>>)
                        ELSE base
    IN  PyDict(IF HasKey(resolved_prop.obj, "description")
                  \/ HasKey(resolved_prop.obj, "title")
               THEN Append(withRequired,
                        <<"description",
                          IF Truthy(Get(resolved_prop.obj, "description", None))
                          THEN Get(resolved_prop.obj, "description", None)
                          ELSE Get(resolved_prop.obj, "title", PyStr(""))>>)
               ELSE withRequired)

\* the interpreter's limit on nested calls, scaled down: every schema of the
\* pools that is not cyclic nests less deep than this
RecursionLimit == 4

\* extract_properties_from_schema(schema) at recursion depth depth, and its
\* loop over schema_props.items() from the i-th property on
RECURSIVE ExtractPropertiesFromSchema(_, _, _, _)
RECURSIVE ExtractProps(_, _, _, _, _, _)
ExtractProps(schemas, schema_props, i, properties, order, depth) ==
    LET Then(r, F(_)) == IF IsRaised(r) THEN r ELSE F(r.returned) IN
    IF i > Len(schema_props) THEN Returned(properties)
    ELSE Then(ResolveRef(schemas, schema_props[i][2]), LAMBDA resolved_prop :
         IF ~IsDict(resolved_prop) THEN Raised("AttributeError")
         ELSE IF Get(resolved_prop.obj, "type", None) = PyStr("object")
                 \/ HasKey(resolved_prop.obj, "properties")
         THEN Then(ExtractPropertiesFromSchema(schemas, resolved_prop, order,
                                               depth + 1),
                   LAMBDA nested :
              ExtractProps(schemas, schema_props, i + 1,
                  DictSet(properties, schema_props[i][1],
                      NestedSchema(resolved_prop, nested.properties,
                                   nested.required)),
                  order, depth))
         ELSE Then(LeafType(resolved_prop), LAMBDA prop_type :
              ExtractProps(schemas, schema_props, i + 1,
                  DictSet(properties, schema_props[i][1],
                      LeafProperty(resolved_prop, prop_type)),
                  order, depth)))

ExtractPropertiesFromSchema(schemas, schema, order, depth) ==
    LET Then(r, F(_)) == IF IsRaised(r) THEN r ELSE F(r.returned) IN
    IF depth > RecursionLimit THEN Raised("RecursionError")
    ELSE Then(ResolveRef(schemas, schema), LAMBDA resolved :
         IF ~IsDict(resolved)
         THEN IF IsRaised(PyIn("allOf", resolved)) \/ PyIn("allOf", resolved).returned
              THEN Raised("TypeError")
              ELSE Raised("AttributeError")
         ELSE Then(Flatten(schemas, resolved, order), LAMBDA resolved_schema :
              IF ~IsDict(Get(resolved_schema.obj, "properties", PyDict(<<>>)))
              THEN Raised("AttributeError")
              ELSE Then(ExtractProps(schemas,
                            Get(resolved_schema.obj, "properties", PyDict(<<>>)).obj,
                            1, <<>>, order, depth),
                        LAMBDA properties :
                   Returned([properties |-> properties,
                             required   |-> Get(resolved_schema.obj, "required",
                                                PyList(<<>>))]))))

\* spec.get("summary", spec.get("description", f"{method.upper()} {path}"))
UpperChar(c) ==
    IF \E i \in DOMAIN LowerLetters : LowerLetters[i] = c
    THEN UpperLetters[CHOOSE i \in DOMAIN LowerLetters : LowerLetters[i] = c]
    ELSE c

RECURSIVE UpperRange(_, _, _)
UpperRange(s, lo, hi) ==
    IF lo > hi THEN ""
    ELSE IF lo = hi THEN UpperChar(Ch(s, lo))
    ELSE LET mid == (lo + hi) \div 2 IN
         UpperRange(s, lo, mid) \o UpperRange(s, mid + 1, hi)

Upper(s) == UpperRange(s, 1, Len(s))

Description(path, method, spec) ==
    Get(spec.obj, "summary",
        Get(spec.obj, "description", PyStr(Upper(method) \o " " \o path)))

\* a parameter loop that requires every query and path parameter
RECURSIVE ParamSchema_AllRequired(_, _, _)
ParamSchema_AllRequired(parameters, i, acc) ==
    IF i > Len(parameters) THEN acc
    ELSE LET param        == parameters[i].obj
             param_name   == Lookup(param, "name")
             param_schema == Get(param, "schema", PyDict(<<<<"type", PyStr("string")>>>>)).obj
             leaf == PyDict(<<
                 <<"type", Get(param_schema, "type", PyStr("string"))>>,
                 <<"description",
                   Get(param, "description", Get(param_schema, "title", PyStr("")))>> >>)
         IN  IF Get(param, "in", None) \in {PyStr("query"), PyStr("path")}
             THEN ParamSchema_AllRequired(parameters, i + 1,
                      [properties |-> DictSet(acc.properties, param_name.str, leaf),
                       required   |-> Append(acc.required, param_name)])
             ELSE ParamSchema_AllRequired(parameters, i + 1, acc)

\* the parameter loop of _create_tool_from_spec: [properties, required]
RECURSIVE ParamSchema(_, _, _)
ParamSchema(parameters, i, acc) ==
    IF i > Len(parameters) THEN acc
    ELSE LET param        == parameters[i].obj
             param_name   == Lookup(param, "name")
             param_in     == Get(param, "in", None)
             param_schema == Get(param, "schema", PyDict(<<<<"type", PyStr("string")>>>>)).obj
             leaf == PyDict(<<
                 <<"type", Get(param_schema, "type", PyStr("string"))>>,
                 <<"description",
                   Get(param, "description", Get(param_schema, "title", PyStr("")))>> >>)
             isTrue == Truthy(Get(param, "required", PyBool(FALSE)))
         IN  IF param_in \in {PyStr("query"), PyStr("path")}
             THEN ParamSchema(parameters, i + 1,
                      [properties |-> DictSet(acc.properties, param_name.str, leaf),
                       required   |-> IF isTrue
                                      THEN Append(acc.required, param_name)
                                      ELSE acc.required])
             ELSE ParamSchema(parameters, i + 1, acc)

\* v.get(k, default)
PyGet(v, k, default) ==
    IF IsDict(v) THEN Returned(Get(v.obj, k, default)) ELSE Raised("AttributeError")

\* a request-body block that merges the properties and drops the required names
MergeRequestBody_WithoutRequired(schemas, order, request_body, sch) ==
    LET Then(r, F(_)) == IF IsRaised(r) THEN r ELSE F(r.returned) IN
    Then(PyGet(request_body, "content", PyDict(<<>>)), LAMBDA content :
    Then(PyGet(content, "application/json", PyDict(<<>>)), LAMBDA json_content :
    Then(PyGet(json_content, "schema", PyDict(<<>>)), LAMBDA schema :
    Then(ExtractPropertiesFromSchema(schemas, schema, order, 1), LAMBDA ex :
    Returned([properties |-> UpdateItems(sch.properties, ex.properties, 1),
              required   |-> sch.required])))))

\* the request-body block of _create_tool_from_spec: sch after
\* properties.update(properties) and required.extend(required), where the
\* schema is request_body["content"]["application/json"]["schema"], each
\* step a .get with {} as default
MergeRequestBody(schemas, order, request_body, sch) ==
    LET Then(r, F(_)) == IF IsRaised(r) THEN r ELSE F(r.returned) IN
    Then(PyGet(request_body, "content", PyDict(<<>>)), LAMBDA content :
    Then(PyGet(content, "application/json", PyDict(<<>>)), LAMBDA json_content :
    Then(PyGet(json_content, "schema", PyDict(<<>>)), LAMBDA schema :
    Then(ExtractPropertiesFromSchema(schemas, schema, order, 1), LAMBDA ex :
    Then(Extend(sch.required, ex.required), LAMBDA required :
    Returned([properties |-> UpdateItems(sch.properties, ex.properties, 1),
              required   |-> required]))))))

CreateToolFromSpec(schemas, order, path, method, spec) ==
    LET Then(r, F(_)) == IF IsRaised(r) THEN r ELSE F(r.returned) IN
    LET parameters   == Get(spec.obj, "parameters", PyList(<<>>)).arr
        params       == ParamSchema(parameters, 1, [properties |-> <<>>, required |-> <<>>])
        request_body == Get(spec.obj, "requestBody", PyDict(<<>>))
    IN  Then(IF Truthy(request_body)
             THEN MergeRequestBody(schemas, order, request_body, params)
             ELSE Returned(params),
             LAMBDA sch :
        Returned(
            [name        |-> OperationId(path, method, spec),
             description |-> Description(path, method, spec),
             inputSchema |-> PyDict(<<
                 <<"type", PyStr("object")>>,
                 <<"properties", PyDict(sch.properties)>>,
                 <<"required", PyList(sch.required)>>,
                 <<"additionalProperties", PyBool(FALSE)>> >>),
             path        |-> path,
             method      |-> method,
             spec        |-> spec]))

\* a method filter that forgets patch, as the if/elif chain of _make_api_call does
IsCompiledMethod_WithoutPatch(method) ==
    Lower(method) \in {"get", "post", "put", "delete"}

\* the method filter of parse_swagger_to_tools
IsCompiledMethod(method) == Lower(method) \in CompiledMethods

RECURSIVE ToolsFrom(_, _, _, _)
ToolsFrom(schemas, order, entries, i) ==
    LET Then(r, F(_)) == IF IsRaised(r) THEN r ELSE F(r.returned) IN
    IF i > Len(entries) THEN Returned(<<>>)
    ELSE IF ~IsCompiledMethod(entries[i].method)
    THEN ToolsFrom(schemas, order, entries, i + 1)
    ELSE Then(CreateToolFromSpec(schemas, order, entries[i].path,
                                 entries[i].method, entries[i].spec),
              LAMBDA tool :
         Then(ToolsFrom(schemas, order, entries, i + 1), LAMBDA rest :
         Returned(<<tool>> \o rest)))

\* parse_swagger_to_tools(): the list of tools, or the exception that ends it
ParseSwaggerToTools(doc, order) ==
    LET Then(r, F(_)) == IF IsRaised(r) THEN r ELSE F(r.returned) IN
    Then(ToolsFrom(SchemasOf(doc), order, DocEntries(doc), 1), LAMBDA tools :
    Returned(PyList(tools)))

(***************************************************************************)
(* The dispatcher                                                          *)
(***************************************************************************)
\* the lookup loop of execute_tool: the index of the first entry whose
\* operation id equals tool_name, 0 when the loop ends without one, and
\* AttributeError when it reaches a path-item value that has no .get
RECURSIVE FindOperation(_, _, _)
FindOperation(entries, i, tool_name) ==
    IF i > Len(entries) THEN Returned(0)
    ELSE IF ~IsDict(entries[i].spec) THEN Raised("AttributeError")
    ELSE IF OperationId(entries[i].path, entries[i].method, entries[i].spec)
                = PyStr(tool_name)
         THEN Returned(i)
         ELSE FindOperation(entries, i + 1, tool_name)

\* {p["name"] for p in parameters if p.get("in") == where}
ParamNames(parameters, where) ==
    {Lookup(parameters[i].obj, "name") :
        i \in {j \in DOMAIN parameters : Get(parameters[j].obj, "in", None) = PyStr(where)}}

\* the three dicts the argument loop of _make_api_call fills
Partition(spec, arguments) ==
    LET parameters        == Get(spec.obj, "parameters", PyList(<<>>)).arr
        path_param_names  == ParamNames(parameters, "path")
        query_param_names == ParamNames(parameters, "query")
        InPath(kv)  == PyStr(kv[1]) \in path_param_names
        InQuery(kv) == PyStr(kv[1]) \notin path_param_names
                       /\ PyStr(kv[1]) \in query_param_names
        InBody(kv)  == PyStr(kv[1]) \notin path_param_names
                       /\ PyStr(kv[1]) \notin query_param_names
    IN  [path_params  |-> SelectSeq(arguments, InPath),
         query_params |-> SelectSeq(arguments, InQuery),
         body_data    |-> SelectSeq(arguments, InBody)]

\* url = url.replace(f"{{{param_name}}}", str(param_value)) for each path parameter
RECURSIVE SubstitutePath(_, _, _)
SubstitutePath(url, path_params, i) ==
    IF i > Len(path_params) THEN url
    ELSE SubstitutePath(
             Replace(url, "{" \o path_params[i][1] \o "}", str(path_params[i][2])),
             path_params, i + 1)

\* an if/elif chain whose else branch issues a GET instead of giving up
ClientCall_ElseGet(method) ==
    LET m == Lower(method) IN
    IF m = "post" THEN [verb |-> "POST", json |-> TRUE]
    ELSE IF m = "put" THEN [verb |-> "PUT", json |-> TRUE]
    ELSE IF m = "delete" THEN [verb |-> "DELETE", json |-> FALSE]
    ELSE [verb |-> "GET", json |-> FALSE]

\* the verb and the body of the client call the if/elif chain of _make_api_call
\* selects for a method key; None when the chain ends in its else branch
ClientCall(method) ==
    LET m == Lower(method) IN
    IF m = "get" THEN [verb |-> "GET", json |-> FALSE]
    ELSE IF m = "post" THEN [verb |-> "POST", json |-> TRUE]
    ELSE IF m = "put" THEN [verb |-> "PUT", json |-> TRUE]
    ELSE IF m = "delete" THEN [verb |-> "DELETE", json |-> FALSE]
    ELSE None

\* _make_api_call up to its await: the request handed to the HTTP client,
\* or the value returned without one
PrepareApiCall(base, path, method, spec, arguments) ==
    LET parts == Partition(spec, arguments)
        url   == SubstitutePath(base \o path, parts.path_params, 1)
        cc    == ClientCall(method)
    IN  IF IsNone(cc)
        THEN [parts   |-> parts,
              request |-> None,
              result  |-> Returned(json_dumps(PyDict(<<
                  <<"error", PyStr("Method " \o method \o " not supported")>> >>)))]
        ELSE [parts   |-> parts,
              request |-> [verb   |-> cc.verb,
                           url    |-> url,
                           params |-> PyDict(parts.query_params),
                           json   |-> IF cc.json THEN PyDict(parts.body_data) ELSE None],
              result  |-> None]

\* what the origin may answer: a response, or no response at all
IsResponse(r) == "status_code" \in DOMAIN r
IsSuccess(r) == r.status_code >= 200 /\ r.status_code <= 299

ReasonPhrase(code) ==
    IF code = 404 THEN "Not Found"
    ELSE IF code = 500 THEN "Internal Server Error"
    ELSE ""

\* str(e) of the HTTPStatusError raise_for_status builds
StatusErrorMessage(r, url) ==
    (IF r.status_code >= 500 THEN "Server error" ELSE "Client error")
    \o " '" \o ToString(r.status_code) \o " " \o ReasonPhrase(r.status_code)
    \o "' for url '" \o url \o "'\nFor more information check: "
    \o "https://httpstatuses.com/" \o ToString(r.status_code)

\* a completion without raise_for_status: every response counts as a success
FinishApiCall_NoRaiseForStatus(request, r) ==
    IF ~IsResponse(r)
    THEN Returned(json_dumps(PyDict(<<
             <<"error", PyStr(r.transport_error)>>,
             <<"status_code", None>>,
             <<"details", None>> >>)))
    ELSE LET parsed == json_loads(r.text) IN
         IF parsed.ok THEN Returned(json_dumps_indent2(parsed.val))
         ELSE Returned(r.text)

\* a completion that hands the body of a success back as it came
FinishApiCall_BodyVerbatim(request, r) ==
    IF ~IsResponse(r)
    THEN Returned(json_dumps(PyDict(<<
             <<"error", PyStr(r.transport_error)>>,
             <<"status_code", None>>,
             <<"details", None>> >>)))
    ELSE IF ~IsSuccess(r)
    THEN Returned(json_dumps(PyDict(<<
             <<"error", PyStr(StatusErrorMessage(r, request.url))>>,
             <<"status_code", PyInt(r.status_code)>>,
             <<"details", PyStr(r.text)>> >>)))
    ELSE Returned(r.text)

\* _make_api_call from the await on: raise_for_status, the JSON attempt, and
\* the except httpx.HTTPError clause
FinishApiCall(request, r) ==
    IF ~IsResponse(r)
    THEN Returned(json_dumps(PyDict(<<
             <<"error", PyStr(r.transport_error)>>,
             <<"status_code", None>>,
             <<"details", None>> >>)))
    ELSE IF ~IsSuccess(r)
    THEN Returned(json_dumps(PyDict(<<
             <<"error", PyStr(StatusErrorMessage(r, request.url))>>,
             <<"status_code", PyInt(r.status_code)>>,
             <<"details", PyStr(r.text)>> >>)))
    ELSE LET parsed == json_loads(r.text) IN
         IF parsed.ok THEN Returned(json_dumps_indent2(parsed.val))
         ELSE Returned(r.text)

\* execute_tool up to the await of _make_api_call: the index of the entry
\* it dispatched to (0: none), the argument partition, the request, the result
BeginExecuteTool(doc, base, tool_name, arguments) ==
    LET entries == DocEntries(doc)
        found   == FindOperation(entries, 1, tool_name)
    IN  IF IsRaised(found)
        THEN [dispatched |-> 0, parts |-> None, request |-> None, result |-> found]
        ELSE IF found.returned = 0
        THEN [dispatched |-> 0, parts |-> None, request |-> None,
              result |-> Returned(json_dumps(PyDict(<<
                  <<"error", PyStr("Tool " \o tool_name \o " not found")>> >>)))]
        ELSE LET e == entries[found.returned]
                 p == PrepareApiCall(base, e.path, e.method, e.spec, arguments)
             IN  [dispatched |-> found.returned, parts |-> p.parts,
                  request |-> p.request, result |-> p.result]

(***************************************************************************)
(* Inputs: documents, base URLs, tool names, argument maps, origin answers *)
(***************************************************************************)
MaxEntries == 3     \* method keys and other keys in a document, over all its paths
MaxArgs == 3        \* keys in an argument map

Param(name, where, required) ==
    PyDict(<< <<"name", PyStr(name)>>, <<"in", PyStr(where)>>,
              <<"required", PyBool(required)>>,
              <<"schema", PyDict(<< <<"type", PyStr("integer")>> >>)>> >>)

\* an operation with an operationId, a path and a query parameter
NamedOp ==
    PyDict(<< <<"operationId", PyStr("get_item")>>,
              <<"summary", PyStr("Get Item")>>,
              <<"parameters", PyList(<<Param("id", "path", TRUE),
                                       Param("q", "query", FALSE)>>)>> >>)

\* an operation without operationId, with a path and a header parameter
AnonOp ==
    PyDict(<< <<"parameters", PyList(<<Param("id", "path", TRUE),
                                       Param("q", "header", FALSE)>>)>> >>)

\* a key of a path item that holds no operation: the parameters shared by
\* the operations of the path
SharedParameters == <<"parameters", PyList(<<Param("id", "path", TRUE)>>)>>

\* what a path item may hold: the five compiled methods (one key in upper
\* case), a method the converter does not compile, and the shared parameters
ItemPool ==
    {<<"get", NamedOp>>, <<"get", AnonOp>>, <<"POST", NamedOp>>,
     <<"put", NamedOp>>, <<"delete", NamedOp>>, <<"patch", NamedOp>>,
     <<"options", NamedOp>>, SharedParameters}

\* path items with n keys, all different
RECURSIVE PathItems(_)
PathItems(n) ==
    IF n = 0 THEN {<<>>}
    ELSE {Append(items, e) : items \in PathItems(n - 1), e \in ItemPool}

DistinctKeys(items) ==
    \A i, j \in DOMAIN items : i # j => items[i][1] # items[j][1]

ItemsOfSize(n) == {items \in PathItems(n) : DistinctKeys(items)}

\* two paths with the same fallback name for each method
PathPool == <<"/items/{id}", "/items_{id}">>

MakeDoc(paths) ==
    PyDict(<< <<"openapi", PyStr("3.1.0")>>, <<"paths", PyDict(paths)>> >>)

SizePairs ==
    {nn \in (1..MaxEntries) \X (1..MaxEntries) : nn[1] + nn[2] <= MaxEntries}

OnePathDocs ==
    {MakeDoc(<< <<PathPool[1], PyDict(items)>> >>) :
        items \in UNION {ItemsOfSize(n) : n \in 1..MaxEntries}}

TwoPathDocs ==
    UNION {
        {MakeDoc(<< <<PathPool[1], PyDict(i1)>>, <<PathPool[2], PyDict(i2)>> >>) :
            i1 \in ItemsOfSize(nn[1]), i2 \in ItemsOfSize(nn[2])}
        : nn \in SizePairs}

\* the documents: one or two paths, MaxEntries keys at most over all paths,
\* and a document with components: POST /users with a required query
\* parameter x and a JSON body allOf [A, B, C], where A requires its x, B
\* its y, and C its z and an x
DocPool ==
    LET Field(name, type) ==
            PyDict(<< <<name, PyDict(<< <<"type", PyStr(type)>> >>)>> >>)
        Schema(props, required) ==
            PyDict(<< <<"properties", props>>,
                      <<"required", PyList([i \in DOMAIN required |-> PyStr(required[i])])>> >>)
        Pointer(name) ==
            PyDict(<< <<"$ref", PyStr("#/components/schemas/" \o name)>> >>)
        add_user ==
            PyDict(<< <<"operationId", PyStr("add_user")>>,
                      <<"parameters", PyList(<<Param("x", "query", TRUE)>>)>>,
                      <<"requestBody", PyDict(<< <<"content", PyDict(<<
                          <<"application/json", PyDict(<<
                              <<"schema", PyDict(<<
                                  <<"allOf", PyList(<<Pointer("A"), Pointer("B"),
                                                      Pointer("C")>>)>> >>)>> >>)>> >>)>> >>)>> >>)
    IN  OnePathDocs \cup TwoPathDocs
        \cup {PyDict(<<
                 <<"openapi", PyStr("3.1.0")>>,
                 <<"paths", PyDict(<< <<"/users", PyDict(<< <<"post", add_user>> >>)>> >>)>>,
                 <<"components", PyDict(<< <<"schemas", PyDict(<<
                     <<"A", Schema(Field("x", "string"), <<"x">>)>>,
                     <<"B", Schema(Field("y", "integer"), <<"y">>)>>,
                     <<"C", Schema(Field("z", "boolean"), <<"z", "x">>)>> >>)>> >>)>> >>)}

BaseUrlPool == {"http://origin", "http://origin/"}

\* the names a caller asks for: every name the document derives, and one it does not
RECURSIVE DerivedNames(_, _)
DerivedNames(entries, i) ==
    IF i > Len(entries) THEN {}
    ELSE (IF IsDict(entries[i].spec)
          THEN {OperationId(entries[i].path, entries[i].method, entries[i].spec).str}
          ELSE {})
         \cup DerivedNames(entries, i + 1)

ToolNamePool(doc) == DerivedNames(DocEntries(doc), 1) \cup {"nonexistent"}

AllArguments == << <<"id", PyInt(5)>>, <<"q", PyStr("x")>>, <<"extra", PyStr("y")>> >>

RECURSIVE SubSeqs(_)
SubSeqs(xs) ==
    IF Len(xs) = 0 THEN {<<>>}
    ELSE LET rest == SubSeqs(Tail(xs)) IN
         rest \cup {<<Head(xs)>> \o r : r \in rest}

ArgumentPool == {a \in SubSeqs(AllArguments) : Len(a) <= MaxArgs}

\* what the origin answers: a status and a body (JSON or not), or nothing
\* at all when the transport fails (timeout, DNS, connection reset)
ResponsePool ==
    {[status_code |-> 200, text |-> "{\"id\":5,\"name\":\"widget\"}"],
     [status_code |-> 200, text |-> "OK"],
     [status_code |-> 201, text |-> "{\"a\": [1, {\"b\": null}], \"c\": \"x\\ny\"}"],
     [status_code |-> 404, text |-> "{\"detail\":\"Not Found\"}"],
     [status_code |-> 500, text |-> "Internal Server Error"],
     [transport_error |-> "All connection attempts failed"]}

(***************************************************************************)
(* The converter as a state machine                                        *)
(***************************************************************************)
Users == {"u1", "u2"}

McpIds == {"m1"}

\* a bound on the converters (and so HTTP clients) created in one run
MaxConverters == 3

\* a bound on the close() calls uploads make on one stored converter
MaxCloses == 2

\* a bound on the SSE connections opened in one run
MaxSessions == 2

\* user_converters = {}, user_servers = {}, mcp_apps = {}; 0 stands for "no entry";
\* user_sessions = {} and tokens = {} of the servers that authenticate
LifeIdle ==
    /\ user_converters = [u \in Users |-> 0]
    /\ user_servers = [u \in Users |-> 0]
    /\ sse_sessions = <<>>
    /\ mcp_apps = {}
    /\ mcp_converter = [m \in McpIds |-> <<>>]
    /\ stopped = {}
    /\ user_sessions = <<>>
    /\ streams = {}
    /\ tokens = <<>>
    /\ now = 0
    /\ issued = {}
    /\ verified = None
    /\ afree = "not started"

\* __init__, in a process whose string hashes arrange a set one way or
\* another; a document without components never has a set listed, and one
\* arrangement stands for all
Init ==
    /\ swagger_doc \in DocPool
    /\ hash_order \in IF HasKey(swagger_doc.obj, "components") THEN HashOrders ELSE {0}
    /\ base_url \in {RStripSlash(b) : b \in BaseUrlPool}
    /\ listed = None
    /\ call = None
    /\ inflight = None
    /\ ret = None
    /\ clients = <<[owner |-> "converter", closes |-> 0]>>
    /\ LifeIdle

\* a listing that appends to the tools of the listings before it
ListTools_Accumulating ==
    /\ call = None
    /\ LET r == ParseSwaggerToTools(swagger_doc, hash_order) IN
       /\ listed' = IF IsRaised(r) THEN listed
                     ELSE IF listed = None THEN r.returned
                     ELSE PyList(listed.arr \o r.returned.arr)
       /\ ret' = IF IsRaised(r) THEN r ELSE ret
    /\ UNCHANGED <<swagger_doc, base_url, call, inflight>>
    /\ UNCHANGED <<hash_order, lifeVars, accessVars>>

\* parse_swagger_to_tools(): register_tools() at import, and any later listing
ListTools ==
    /\ call = None
    /\ LET r == ParseSwaggerToTools(swagger_doc, hash_order) IN
       /\ listed' = IF IsRaised(r) THEN listed ELSE r.returned
       /\ ret' = IF IsRaised(r) THEN r ELSE ret
    /\ UNCHANGED <<swagger_doc, base_url, call, inflight>>
    /\ UNCHANGED <<hash_order, lifeVars, accessVars>>

\* execute_tool(tool_name, arguments) until it returns or awaits the origin;
\* a client that has been closed sends nothing: httpx raises RuntimeError
\* ("Cannot send a request, as the client has been closed"), which is no
\* httpx.HTTPError and leaves _make_api_call and execute_tool
ExecuteTool(tool_name, arguments) ==
    /\ listed # None
    /\ call = None
    /\ LET b == BeginExecuteTool(swagger_doc, base_url, tool_name, arguments)
           refused == b.request # None /\ clients[1].closes > 0
       IN
       /\ call' = [tool_name |-> tool_name, arguments |-> arguments,
                   dispatched |-> b.dispatched, parts |-> b.parts,
                   request |-> b.request, response |-> None]
       /\ inflight' = IF refused THEN None ELSE b.request
       /\ ret' = IF refused THEN Raised("RuntimeError") ELSE b.result
    /\ UNCHANGED <<swagger_doc, base_url, listed>>
    /\ UNCHANGED <<hash_order, lifeVars, accessVars>>

\* the origin answers, or the transport fails; _make_api_call resumes and returns
OriginResponds(r) ==
    /\ inflight # None
    /\ ret' = FinishApiCall(inflight, r)
    /\ call' = [call EXCEPT !.response = r]
    /\ inflight' = None
    /\ UNCHANGED <<swagger_doc, base_url, listed>>
    /\ UNCHANGED <<hash_order, lifeVars, accessVars>>

\* close(), between two calls: await self.http_client.aclose(); closing a
\* closed client changes nothing
Close ==
    /\ call = None
    /\ clients[1].closes = 0
    /\ clients' = [clients EXCEPT ![1].closes = 1]
    /\ UNCHANGED coreVars
    /\ UNCHANGED <<user_converters, user_servers, sse_sessions, mcp_apps, mcp_converter,
                   stopped>>
    /\ UNCHANGED accessVars

\* tool_handler hands the result of execute_tool to its caller
ToolHandlerReturn ==
    /\ call # None
    /\ ret # None
    /\ call' = None
    /\ ret' = None
    /\ UNCHANGED <<swagger_doc, base_url, listed, inflight>>
    /\ UNCHANGED <<hash_order, lifeVars, accessVars>>

ExecuteToolCall ==
    \E n \in ToolNamePool(swagger_doc), a \in ArgumentPool : ExecuteTool(n, a)

OriginAnswers == \E r \in ResponsePool : OriginResponds(r)

Next ==
    \/ ListTools
    \/ ExecuteToolCall
    \/ OriginAnswers
    \/ ToolHandlerReturn
    \/ Close

Spec == Init /\ [][Next]_vars

(***************************************************************************)
(* The registries that own converters: the per-user SSE server of          *)
(* src/test.mcp1.py and the dynamic manager of src/main.py                 *)
(***************************************************************************)
\* httpx.AsyncClient(timeout=30.0) in a converter's __init__
NewClient(owner) == Append(clients, [owner |-> owner, closes |-> 0])

\* converter.close(): one more aclose() on the client of each converter in cs
CloseAll(cl, cs) ==
    [c \in DOMAIN cl |-> IF c \in cs THEN [cl[c] EXCEPT !.closes = @ + 1] ELSE cl[c]]

\* the converter stored for user u, as a set
Stored(u) == IF user_converters[u] = 0 THEN {} ELSE {user_converters[u]}

\* how one upload_spec request can end
UploadOutcomes == {"rejected", "init_raises", "tools_raise", "stored"}

InitLifecycle ==
    /\ swagger_doc = None
    /\ hash_order = 0
    /\ clients = <<>>
    /\ base_url = None
    /\ listed = None
    /\ call = None
    /\ inflight = None
    /\ ret = None
    /\ LifeIdle

\* POST /upload-spec for user u
\*   rejected:    a required field is missing, 400 before anything is touched
\*   init_raises: OpenAPIConverter.__init__ raises before it creates its client
\*   tools_raise: the converter is built, create_server_from_openapi raises
\*   stored:      the new converter and server replace the old ones
UploadSpec(u, outcome) ==
    /\ "sse_server" \notin stopped
    /\ outcome \in {"tools_raise", "stored"} => Len(clients) < MaxConverters
    /\ outcome # "rejected" => \A c \in Stored(u) : clients[c].closes < MaxCloses
    /\ IF outcome = "rejected"
       THEN UNCHANGED <<user_converters, user_servers, clients>>
       ELSE LET closed == CloseAll(clients, Stored(u))
                new == Len(clients) + 1 IN
            /\ clients' = IF outcome = "init_raises"
                           THEN closed
                           ELSE Append(closed, [owner |-> u, closes |-> 0])
            /\ user_converters' = IF outcome = "stored"
                                   THEN [user_converters EXCEPT ![u] = new]
                                   ELSE user_converters
            /\ user_servers' = IF outcome = "stored"
                                THEN [user_servers EXCEPT ![u] = new]
                                ELSE user_servers
    /\ UNCHANGED <<mcp_apps, mcp_converter, stopped>>
    /\ UNCHANGED <<sse_sessions, coreVars, accessVars>>

\* the shutdown handler of the SSE server: close every stored converter
Shutdown ==
    /\ "sse_server" \notin stopped
    /\ clients' = CloseAll(clients, UNION {Stored(u) : u \in Users})
    /\ stopped' = stopped \cup {"sse_server"}
    /\ UNCHANGED <<user_converters, user_servers, mcp_apps, mcp_converter>>
    /\ UNCHANGED <<sse_sessions, coreVars, accessVars>>

\* POST /api/load_mcp/{mcp_id}
LoadMcpServer(m) ==
    /\ "manager" \notin stopped
    /\ IF m \in mcp_apps
       THEN UNCHANGED <<mcp_apps, mcp_converter, clients>>
       ELSE /\ Len(clients) < MaxConverters
            /\ clients' = NewClient(m)
            /\ mcp_converter' = [mcp_converter EXCEPT ![m] = Append(@, Len(clients) + 1)]
            /\ mcp_apps' = mcp_apps \cup {m}
    /\ UNCHANGED <<user_converters, user_servers, stopped>>
    /\ UNCHANGED <<sse_sessions, coreVars, accessVars>>

\* DELETE /api/unload_mcp/{mcp_id}: 404 when absent, else del mcp_apps[mcp_id]
UnloadMcpServer(m) ==
    /\ "manager" \notin stopped
    /\ mcp_apps' = mcp_apps \ {m}
    /\ UNCHANGED <<user_converters, user_servers, mcp_converter, clients, stopped>>
    /\ UNCHANGED <<sse_sessions, coreVars, accessVars>>

\* the converters the manager has created, mounted wrappers are never removed
Mounted == UNION {Range(mcp_converter[m]) : m \in McpIds}

\* the manager stops; the shutdown handler of a mounted wrapper only schedules
\* _shutdown_converter with create_task, so the close of each wrapper's
\* converter has or has not run when the loop ends
ManagerShutdown(ran) ==
    /\ "manager" \notin stopped
    /\ clients' = CloseAll(clients, ran)
    /\ stopped' = stopped \cup {"manager"}
    /\ UNCHANGED <<user_converters, user_servers, mcp_apps, mcp_converter>>
    /\ UNCHANGED <<sse_sessions, coreVars, accessVars>>

\* GET /sse for user u: 400 when the user has no server, else the connection
\* runs the server stored at that moment, whose handle_call_tool closes over
\* the converter it was created with
HandleSse(u) ==
    /\ "sse_server" \notin stopped
    /\ Len(sse_sessions) < MaxSessions
    /\ sse_sessions' = IF user_servers[u] = 0
                        THEN sse_sessions
                        ELSE Append(sse_sessions,
                                    [user |-> u, server |-> user_servers[u],
                                     open |-> TRUE, last |-> None])
    /\ UNCHANGED <<user_converters, user_servers, mcp_apps, mcp_converter, clients,
                   stopped>>
    /\ UNCHANGED <<coreVars, accessVars>>

\* a tools/call message of the open connection s: handle_call_tool awaits
\* converter.execute_tool of the converter of its server; last records that
\* converter and whether its client was closed when the call began
HandleCallTool(s) ==
    /\ "sse_server" \notin stopped
    /\ sse_sessions[s].open
    /\ sse_sessions' =
           [sse_sessions EXCEPT ![s].last =
               [converter |-> sse_sessions[s].server,
                closed |-> clients[sse_sessions[s].server].closes > 0]]
    /\ UNCHANGED <<user_converters, user_servers, mcp_apps, mcp_converter, clients,
                   stopped>>
    /\ UNCHANGED <<coreVars, accessVars>>

\* the client of connection s disconnects: server.run and handle_sse return
SseDisconnect(s) ==
    /\ sse_sessions[s].open
    /\ sse_sessions' = [sse_sessions EXCEPT ![s].open = FALSE]
    /\ UNCHANGED <<user_converters, user_servers, mcp_apps, mcp_converter, clients,
                   stopped>>
    /\ UNCHANGED <<coreVars, accessVars>>

UploadSpecRequest == \E u \in Users, o \in UploadOutcomes : UploadSpec(u, o)

SseConnects == \E u \in Users : HandleSse(u)

SseCallsTool == \E s \in DOMAIN sse_sessions : HandleCallTool(s)

SseDisconnects == \E s \in DOMAIN sse_sessions : SseDisconnect(s)

LoadMcpRequest == \E m \in McpIds : LoadMcpServer(m)

UnloadMcpRequest == \E m \in McpIds : UnloadMcpServer(m)

ManagerStops == \E ran \in SUBSET Mounted : ManagerShutdown(ran)

NextLifecycle ==
    \/ UploadSpecRequest
    \/ SseConnects
    \/ SseCallsTool
    \/ SseDisconnects
    \/ Shutdown
    \/ LoadMcpRequest
    \/ UnloadMcpRequest
    \/ ManagerStops

SpecLifecycle == InitLifecycle /\ [][NextLifecycle]_vars

(***************************************************************************)
(* The earlier converter of src/test.mcp_server.py: the same resolve_ref,  *)
(* an extract_properties_from_schema without composition or nesting        *)
(***************************************************************************)
\* the loop over schema_props.items() from the i-th property on; in the
\* for/else over prop_spec["anyOf"] the first option whose type is not
\* "null" decides, with "string" for an option that has no type
RECURSIVE TestMcpServer_ExtractProps(_, _, _)
TestMcpServer_ExtractProps(schema_props, i, properties) ==
    IF i > Len(schema_props) THEN Returned(properties)
    ELSE LET RECURSIVE FirstNonNull(_, _)
             FirstNonNull(options, k) ==
                 IF k > Len(options) THEN Returned(PyStr("string"))
                 ELSE IF ~IsDict(options[k]) THEN Raised("AttributeError")
                 ELSE IF Get(options[k].obj, "type", None) # PyStr("null")
                 THEN Returned(Get(options[k].obj, "type", PyStr("string")))
                 ELSE FirstNonNull(options, k + 1)
             prop_spec == schema_props[i][2]
             has       == PyIn("anyOf", prop_spec)
             prop_type ==
                 IF IsRaised(has) THEN has
                 ELSE IF has.returned
                 THEN IF ~IsDict(prop_spec) THEN Raised("TypeError")
                      ELSE LET it == Iter(Lookup(prop_spec.obj, "anyOf")) IN
                           IF IsRaised(it) THEN it
                           ELSE FirstNonNull(it.returned, 1)
                 ELSE PyGet(prop_spec, "type", PyStr("string"))
         IN  IF IsRaised(prop_type) THEN prop_type
             ELSE TestMcpServer_ExtractProps(schema_props, i + 1,
                      DictSet(properties, schema_props[i][1],
                              LeafProperty(prop_spec, prop_type.returned)))

TestMcpServer_ExtractPropertiesFromSchema(schemas, schema) ==
    LET rs == ResolveRef(schemas, schema) IN
    IF IsRaised(rs) THEN rs
    ELSE IF ~IsDict(rs.returned) THEN Raised("AttributeError")
    ELSE LET required     == Get(rs.returned.obj, "required", PyList(<<>>))
             schema_props == Get(rs.returned.obj, "properties", PyDict(<<>>))
         IN  IF ~IsDict(schema_props) THEN Raised("AttributeError")
             ELSE LET props == TestMcpServer_ExtractProps(schema_props.obj, 1, <<>>)
                  IN  IF IsRaised(props) THEN props
                      ELSE Returned([properties |-> props.returned,
                                     required   |-> required])

(***************************************************************************)
(* Inputs of the schema resolver: documents with components.schemas,      *)
(* schemas, property schemas, composition members, operations with a      *)
(* request body                                                            *)
(***************************************************************************)
MaxMembers == 2     \* members of an allOf, anyOf or oneOf
MaxProps == 2       \* properties of an inline object schema

Ref(name) == PyDict(<< <<"$ref", PyStr("#/components/schemas/" \o name)>> >>)

Leaf(type) == PyDict(<< <<"type", PyStr(type)>> >>)

\* SWAGGER_DOC["components"]["schemas"]["UserAddRequest"] of src/test.mcp_server.py
UserAddRequest ==
    PyDict(<<
        <<"properties", PyDict(<<
            <<"name", PyDict(<< <<"type", PyStr("string")>>,
                                <<"title", PyStr("Name")>> >>)>>,
            <<"email", PyDict(<< <<"type", PyStr("string")>>,
                                 <<"title", PyStr("Email")>> >>)>>,
            <<"age", PyDict(<< <<"anyOf", PyList(<<Leaf("integer"), Leaf("null")>>)>>,
                               <<"title", PyStr("Age")>> >>)>> >>)>>,
        <<"type", PyStr("object")>>,
        <<"required", PyList(<<PyStr("name"), PyStr("email")>>)>>,
        <<"title", PyStr("UserAddRequest")>> >>)

\* components.schemas: UserAddRequest; the schemas A and B of the allOf
\* example and C, which shares x with A; objects nested in objects
\* (Company.owner is a Person, Person.home an Address); a linked list
\* (Node.next is a Node)
Components ==
    LET SchemaA ==
            PyDict(<< <<"properties", PyDict(<< <<"x", Leaf("string")>> >>)>>,
                      <<"required", PyList(<<PyStr("x")>>)>> >>)
        SchemaB ==
            PyDict(<< <<"properties", PyDict(<< <<"y", Leaf("integer")>> >>)>>,
                      <<"required", PyList(<<PyStr("y")>>)>> >>)
        SchemaC ==
            PyDict(<< <<"properties", PyDict(<< <<"x", Leaf("integer")>>,
                                                <<"z", Leaf("boolean")>> >>)>>,
                      <<"required", PyList(<<PyStr("z"), PyStr("x")>>)>> >>)
        Address ==
            PyDict(<< <<"type", PyStr("object")>>,
                      <<"description", PyStr("Postal address")>>,
                      <<"properties", PyDict(<<
                          <<"street", PyDict(<< <<"type", PyStr("string")>>,
                                                <<"description", PyStr("Street line")>> >>)>>,
                          <<"zip", Leaf("string")>> >>)>>,
                      <<"required", PyList(<<PyStr("street")>>)>> >>)
        Person ==
            PyDict(<< <<"type", PyStr("object")>>,
                      <<"title", PyStr("Person")>>,
                      <<"properties", PyDict(<< <<"name", Leaf("string")>>,
                                                <<"home", Ref("Address")>> >>)>>,
                      <<"required", PyList(<<PyStr("name")>>)>> >>)
        Company ==
            PyDict(<< <<"type", PyStr("object")>>,
                      <<"properties", PyDict(<< <<"owner", Ref("Person")>> >>)>> >>)
        Node ==
            PyDict(<< <<"type", PyStr("object")>>,
                      <<"properties", PyDict(<< <<"value", Leaf("integer")>>,
                                                <<"next", Ref("Node")>> >>)>> >>)
    IN  << <<"UserAddRequest", UserAddRequest>>, <<"A", SchemaA>>, <<"B", SchemaB>>,
           <<"C", SchemaC>>, <<"Address", Address>>, <<"Person", Person>>,
           <<"Company", Company>>, <<"Node", Node>> >>

\* the documents: one with the components above, one without components
SchemaDocPool ==
    {PyDict(<< <<"openapi", PyStr("3.1.0")>>, <<"paths", PyDict(<<>>)>>,
               <<"components", PyDict(<< <<"schemas", PyDict(Components)>> >>)>> >>),
     PyDict(<< <<"openapi", PyStr("3.1.0")>>, <<"paths", PyDict(<<>>)>> >>)}

\* $ref pointers: to every component, to a schema that does not exist, with
\* another prefix, and with a value that is not a string
RefPool ==
    {Ref(n) : n \in Range(Keys(Components)) \cup {"Missing"}}
    \cup {PyDict(<< <<"$ref", PyStr("#/definitions/A")>> >>),
          PyDict(<< <<"$ref", PyInt(5)>> >>)}

\* values that are not mappings
NonMappingPool == {None, PyInt(5), PyStr("text"), PyList(<<>>), PyBool(TRUE)}

\* property schemas: typed leaves with and without title and description,
\* nullable and alternative types, nested objects, and malformed values
PropPool ==
    {Leaf("string"),
     PyDict(<<>>),
     PyDict(<< <<"type", PyStr("integer")>>, <<"title", PyStr("Age")>> >>),
     PyDict(<< <<"type", PyStr("string")>>, <<"description", PyStr("The name")>> >>),
     PyDict(<< <<"type", PyStr("string")>>, <<"title", PyStr("Name")>>,
               <<"description", PyStr("The name")>> >>),
     PyDict(<< <<"anyOf", PyList(<<Leaf("integer"), Leaf("null")>>)>>,
               <<"title", PyStr("Age")>> >>),
     PyDict(<< <<"anyOf", PyList(<<Leaf("null"), Leaf("boolean")>>)>> >>),
     PyDict(<< <<"anyOf", PyList(<<Leaf("null")>>)>> >>),
     PyDict(<< <<"anyOf", PyList(<<PyDict(<<>>), Leaf("null")>>)>> >>),
     PyDict(<< <<"oneOf", PyList(<<Leaf("integer"), Leaf("null")>>)>> >>),
     PyDict(<< <<"oneOf", PyList(<<PyDict(<<>>), Leaf("integer")>>)>> >>),
     PyDict(<< <<"anyOf", PyList(<<>>)>>,
               <<"oneOf", PyList(<<Leaf("integer")>>)>> >>),
     PyDict(<< <<"anyOf", PyList(<<>>)>> >>),
     PyDict(<< <<"anyOf", PyList(<<PyInt(5)>>)>> >>),
     PyDict(<< <<"type", PyStr("object")>>,
               <<"properties", PyDict(<< <<"q", Leaf("integer")>> >>)>>,
               <<"required", PyList(<<PyStr("q")>>)>> >>),
     Ref("Address"), Ref("Person"), Ref("Node"), Ref("Missing"),
     PyInt(5)}

\* inline object schemas with 1..MaxProps properties a, b, ... drawn from
\* PropPool, every second one with a required list
ObjectPool ==
    LET RECURSIVE PropsOfSize(_)
        PropsOfSize(n) ==
            IF n = 0 THEN {<<>>}
            ELSE {Append(props, <<<<"a", "b", "c", "d">>[((n - 1) % 4) + 1], p>>) :
                      props \in PropsOfSize(n - 1), p \in PropPool}
    IN  UNION {
            {PyDict(<< <<"type", PyStr("object")>>, <<"properties", PyDict(props)>> >>),
             PyDict(<< <<"properties", PyDict(props)>>,
                       <<"required", PyList(<<PyStr("a")>>)>> >>)}
            : props \in UNION {PropsOfSize(n) : n \in 1..MaxProps}}

\* members of a composition: references, inline objects, non-objects
MemberPool ==
    {Ref("A"), Ref("B"), Ref("C"), Ref("Missing"), Lookup(Components, "B"), Leaf("null"),
     Leaf("string"), PyInt(5)}

\* composed schemas of 0..MaxMembers members: allOf, anyOf, oneOf, anyOf
\* and oneOf together, and anyOf next to properties of the schema's own
ComposedPool ==
    LET RECURSIVE MembersOfSize(_)
        MembersOfSize(n) ==
            IF n = 0 THEN {<<>>}
            ELSE {Append(ms, m) : ms \in MembersOfSize(n - 1), m \in MemberPool}
    IN  UNION {
            {PyDict(<< <<"allOf", PyList(ms)>> >>),
             PyDict(<< <<"anyOf", PyList(ms)>> >>),
             PyDict(<< <<"oneOf", PyList(ms)>> >>),
             PyDict(<< <<"anyOf", PyList(ms)>>,
                       <<"oneOf", PyList(<<Ref("C")>>)>> >>),
             PyDict(<< <<"type", PyStr("object")>>,
                       <<"properties", PyDict(<< <<"own", Leaf("string")>> >>)>>,
                       <<"anyOf", PyList(ms)>> >>)}
            : ms \in UNION {MembersOfSize(n) : n \in 0..MaxMembers}}

\* what resolve_ref is given
ResolveArgPool ==
    RefPool \cup NonMappingPool \cup {Leaf("string"), PyDict(<<>>), Lookup(Components, "A")}

\* what extract_properties_from_schema is given: the above, and schemas
\* whose parts are not what the resolver expects
SchemaPool ==
    RefPool \cup NonMappingPool \cup ObjectPool \cup ComposedPool
    \cup {PyDict(<< <<"properties", PyStr("text")>> >>),
          PyDict(<< <<"properties", PyList(<<>>)>> >>),
          PyDict(<< <<"allOf", PyInt(5)>> >>),
          PyDict(<< <<"anyOf", None>> >>),
          PyDict(<< <<"type", PyStr("object")>>, <<"required", PyInt(5)>> >>)}

\* parameters: every location, required true, false and not declared
ParamPool ==
    {Param(n[1], n[2], r) : n \in {<<"id", "path">>, <<"q", "query">>,
                                   <<"h", "header">>, <<"c", "cookie">>},
                            r \in BOOLEAN}
    \cup {PyDict(<< <<"name", PyStr("q")>>, <<"in", PyStr("query")>>,
                    <<"description", PyStr("Search text")>> >>),
          PyDict(<< <<"name", PyStr("n")>> >>),
          \* the path parameter of SWAGGER_DOC in src/server.py, whose flag is a string
          PyDict(<< <<"name", PyStr("path")>>, <<"in", PyStr("path")>>,
                    <<"required", PyStr("true")>>,
                    <<"schema", PyDict(<< <<"type", PyStr("string")>>,
                                          <<"title", PyStr("Path")>> >>)>> >>)}

\* request bodies: a JSON schema by reference, inline, composed; a body
\* without JSON content; a body without content
BodyPool ==
    LET RequestBody(schema) ==
            PyDict(<< <<"content", PyDict(<<
                <<"application/json", PyDict(<< <<"schema", schema>> >>)>> >>)>> >>)
    IN  {RequestBody(s) :
            s \in RefPool \cup {Lookup(Components, "A"), PyDict(<<>>),
                                PyDict(<< <<"allOf", PyList(<<Ref("A"), Ref("C")>>)>> >>)}}
        \cup {PyDict(<< <<"content", PyDict(<<
                  <<"text/plain", PyDict(<< <<"schema", Ref("A")>> >>)>> >>)>> >>),
              PyDict(<< <<"required", PyBool(TRUE)>> >>)}

\* operations: parameters only (none, one, or one followed by a required
\* path or query parameter), a request body only, or both
OperationPool ==
    {PyDict(<< <<"parameters", PyList(ps)>> >>) :
        ps \in {<<>>} \cup {<<p>> : p \in ParamPool}
               \cup {<<p, q>> : p \in ParamPool,
                                q \in {Param("id", "path", TRUE),
                                       Param("q", "query", TRUE)}}}
    \cup {PyDict(<< <<"operationId", PyStr("add_user")>>,
                    <<"requestBody", b>> >>) : b \in BodyPool}
    \cup {PyDict(<< <<"parameters", PyList(<<Param("x", "query", TRUE)>>)>>,
                    <<"requestBody", b>> >>) : b \in BodyPool}

(***************************************************************************)
(* The schema resolver as a state machine: a converter built with one of   *)
(* the documents, whose methods are called with one of the inputs          *)
(***************************************************************************)
InitSchema ==
    /\ swagger_doc \in SchemaDocPool
    /\ hash_order = 0
    /\ clients = <<[owner |-> "converter", closes |-> 0]>>
    /\ base_url = "http://origin"
    /\ listed = None
    /\ call = None
    /\ inflight = None
    /\ ret = None
    /\ LifeIdle

\* resolve_ref(ref_or_schema)
ResolveRefCall(ref_or_schema) ==
    /\ call = None
    /\ call' = [fn |-> "resolve_ref", arg |-> ref_or_schema]
    /\ ret' = ResolveRef(SchemasOf(swagger_doc), ref_or_schema)
    /\ UNCHANGED <<swagger_doc, base_url, listed, inflight>>
    /\ UNCHANGED <<hash_order, lifeVars, accessVars>>

\* extract_properties_from_schema(schema); order is the arrangement
\* list(set(...)) comes out in, should the call reach it
ExtractCall(schema, order) ==
    /\ call = None
    /\ call' = [fn |-> "extract_properties_from_schema", arg |-> schema,
                order |-> order]
    /\ ret' = ExtractPropertiesFromSchema(SchemasOf(swagger_doc), schema, order, 1)
    /\ UNCHANGED <<swagger_doc, base_url, listed, inflight>>
    /\ UNCHANGED <<hash_order, lifeVars, accessVars>>

\* extract_properties_from_schema(schema) of src/test.mcp_server.py
TestMcpServerExtractCall(schema) ==
    /\ call = None
    /\ call' = [fn |-> "test.mcp_server.extract_properties_from_schema",
                arg |-> schema]
    /\ ret' = TestMcpServer_ExtractPropertiesFromSchema(SchemasOf(swagger_doc), schema)
    /\ UNCHANGED <<swagger_doc, base_url, listed, inflight>>
    /\ UNCHANGED <<hash_order, lifeVars, accessVars>>

\* _create_tool_from_spec("/users", "post", spec)
CreateToolCall(spec, order) ==
    /\ call = None
    /\ call' = [fn |-> "_create_tool_from_spec", arg |-> spec, order |-> order]
    /\ ret' = CreateToolFromSpec(SchemasOf(swagger_doc), order, "/users", "post", spec)
    /\ UNCHANGED <<swagger_doc, base_url, listed, inflight>>
    /\ UNCHANGED <<hash_order, lifeVars, accessVars>>

\* the caller takes the outcome
SchemaReturn ==
    /\ call # None
    /\ call' = None
    /\ ret' = None
    /\ UNCHANGED <<swagger_doc, base_url, listed, inflight>>
    /\ UNCHANGED <<hash_order, lifeVars, accessVars>>

\* a caller that holds no outcome calls one of the methods with one of the
\* inputs; a caller that holds one takes it
NextSchema ==
    \/ call = None /\ \E x \in ResolveArgPool : ResolveRefCall(x)
    \/ call = None /\ \E s \in SchemaPool, order \in HashOrders : ExtractCall(s, order)
    \/ call = None /\ \E s \in SchemaPool : TestMcpServerExtractCall(s)
    \/ call = None /\ \E op \in OperationPool, order \in HashOrders :
                          CreateToolCall(op, order)
    \/ SchemaReturn

SpecSchema == InitSchema /\ [][NextSchema]_vars

(***************************************************************************)
(* The servers that keep track of who is connected: the session list of    *)
(* src/test.mcp_server.py, the token store of src/auth.py and the start of *)
(* the header-authenticated server of src/afree.py                         *)
(***************************************************************************)
\* a bound on the addresses id(request) can take: a Request object that is
\* alive has an address no other live object has, and a freed one's address
\* is used again
MaxRequests == 2

\* a bound on the access tokens issued in one run
MaxTokens == 1

\* TOKEN_EXPIRY = 3600  # 1 hour
TOKEN_EXPIRY == 3600

OAUTH_CLIENT_ID == "mcp-client-id"

OAUTH_CLIENT_SECRET == "mcp-client-secret"

\* what time.time() can read: the wall clock, which can be set back between
\* two readings
TimePool == {0, TOKEN_EXPIRY, TOKEN_EXPIRY + 1}

\* secrets.token_urlsafe(32): 256 random bits, a value never drawn before
TokenPool == {"tok" \o ToString(i) : i \in 1..MaxTokens}

\* the form fields of a POST /oauth/token; None is a missing field
FormPool ==
    LET Form(g, i, s) == [grant_type |-> g, client_id |-> i, client_secret |-> s]
        id == PyStr(OAUTH_CLIENT_ID)
        secret == PyStr(OAUTH_CLIENT_SECRET)
    IN  {Form(PyStr("client_credentials"), id, secret),
         Form(PyStr("password"), id, secret),
         Form(None, id, secret),
         Form(PyStr("client_credentials"), None, secret),
         Form(PyStr("client_credentials"), id, PyStr("")),
         Form(PyStr("client_credentials"), PyStr("someone"), secret),
         Form(PyStr("client_credentials"), id, PyStr("guess"))}

\* the Authorization header of a request; "" is a missing header
HeaderPool ==
    {""} \cup {"Bearer " \o t : t \in TokenPool \cup {"forged"}}
         \cup {"bearer " \o t : t \in TokenPool} \cup TokenPool

InitAccess ==
    /\ swagger_doc = None
    /\ hash_order = 0
    /\ clients = <<>>
    /\ base_url = None
    /\ listed = None
    /\ call = None
    /\ inflight = None
    /\ ret = None
    /\ LifeIdle

\* an event stream that leaves the emptied list of its user in user_sessions
EventStreamEnds_KeepsEmptyList(st) ==
    /\ st \in streams
    /\ streams' = streams \ {st}
    /\ user_sessions' =
          IF HasKey(user_sessions, st.uid)
             /\ st.session_id \in Range(Lookup(user_sessions, st.uid))
          THEN LET l == Lookup(user_sessions, st.uid)
                   k == CHOOSE i \in DOMAIN l :
                            /\ l[i] = st.session_id
                            /\ \A j \in 1..(i - 1) : l[j] # st.session_id
                   rest == SubSeq(l, 1, k - 1) \o SubSeq(l, k + 1, Len(l))
               IN  DictSet(user_sessions, st.uid, rest)
          ELSE user_sessions
    /\ UNCHANGED <<tokens, now, issued, verified, afree>>
    /\ UNCHANGED <<coreVars, lifeVars>>

\* event_stream() of a GET or POST /{uid}/sse up to its first yield:
\* session_id = f"{uid}_{id(request)}" is appended to the list of uid, which
\* is created when uid has none; no await stands in between
EventStreamBegins(uid, request) ==
    /\ \A st \in streams : st.request # request
    /\ LET session_id == uid \o "_" \o ToString(request)
           l == Get(user_sessions, uid, <<>>)
       IN  /\ user_sessions' = DictSet(user_sessions, uid, Append(l, session_id))
           /\ streams' = streams \cup {[uid |-> uid, request |-> request,
                                        session_id |-> session_id]}
    /\ UNCHANGED <<tokens, now, issued, verified, afree>>
    /\ UNCHANGED <<coreVars, lifeVars>>

\* the finally block of event_stream(), reached on disconnect, cancellation,
\* an error or the closing of the generator: list.remove takes out the first
\* occurrence of session_id, and the list that is left empty is deleted
EventStreamEnds(st) ==
    /\ st \in streams
    /\ streams' = streams \ {st}
    /\ user_sessions' =
          IF HasKey(user_sessions, st.uid)
             /\ st.session_id \in Range(Lookup(user_sessions, st.uid))
          THEN LET l == Lookup(user_sessions, st.uid)
                   k == CHOOSE i \in DOMAIN l :
                            /\ l[i] = st.session_id
                            /\ \A j \in 1..(i - 1) : l[j] # st.session_id
                   rest == SubSeq(l, 1, k - 1) \o SubSeq(l, k + 1, Len(l))
               IN  IF rest = <<>>
                   THEN SelectSeq(user_sessions, LAMBDA e : e[1] # st.uid)
                   ELSE DictSet(user_sessions, st.uid, rest)
          ELSE user_sessions
    /\ UNCHANGED <<tokens, now, issued, verified, afree>>
    /\ UNCHANGED <<coreVars, lifeVars>>

\* GET /admin/sessions
GetActiveSessions ==
    /\ LET RECURSIVE Sum(_)
           Sum(s) == IF s = <<>> THEN 0 ELSE Len(s[1][2]) + Sum(Tail(s))
       IN  ret' = [active_users |-> Keys(user_sessions),
                   sessions |-> [i \in DOMAIN user_sessions |->
                                    <<user_sessions[i][1], Len(user_sessions[i][2])>>],
                   total_sessions |-> Sum(user_sessions)]
    /\ UNCHANGED <<swagger_doc, base_url, listed, call, inflight, hash_order>>
    /\ UNCHANGED <<lifeVars, accessVars>>

\* a verification that never looks at expires_at
VerifyBearerToken_NeverExpires(auth_header, t) ==
    /\ IF ~StartsWithAt(auth_header, 1, "Bearer ")
       THEN /\ verified' = [header |-> auth_header, at |-> <<>>, token_data |-> None]
            /\ UNCHANGED <<tokens, now>>
       ELSE LET token == SubSeq(auth_header, 8, Len(auth_header)) IN
            IF ~HasKey(tokens, token)
            THEN /\ verified' = [header |-> auth_header, at |-> <<>>,
                                 token_data |-> None]
                 /\ UNCHANGED <<tokens, now>>
            ELSE /\ now' = t
                 /\ tokens' = tokens
                 /\ verified' = [header |-> auth_header, at |-> <<t>>,
                                 token_data |-> Lookup(tokens, token)]
    /\ UNCHANGED <<user_sessions, streams, issued, afree>>
    /\ UNCHANGED <<coreVars, lifeVars>>

\* POST /oauth/token with the fields of form; the clock reads t when the
\* token is made
OauthTokenEndpoint(form, access_token, t) ==
    /\ IF \/ form.grant_type # PyStr("client_credentials")
          \/ form.client_id \in {None, PyStr("")}
          \/ form.client_secret \in {None, PyStr("")}
          \/ form.client_id # PyStr(OAUTH_CLIENT_ID)
          \/ form.client_secret # PyStr(OAUTH_CLIENT_SECRET)
       THEN UNCHANGED <<tokens, now, issued>>
       ELSE LET expires_at == t + TOKEN_EXPIRY IN
            /\ access_token \notin {i.access_token : i \in issued}
            /\ now' = t
            /\ tokens' = DictSet(tokens, access_token,
                                 [client_id |-> form.client_id.str,
                                  expires_at |-> expires_at, scope |-> "mcp"])
            /\ issued' = issued \cup {[access_token |-> access_token, form |-> form,
                                       expires_at |-> expires_at]}
    /\ UNCHANGED <<user_sessions, streams, verified, afree>>
    /\ UNCHANGED <<coreVars, lifeVars>>

\* verify_bearer_token(request), as handle_sse and handle_messages call it
\* first; the clock is read, as t, only for a token that is in the store
VerifyBearerToken(auth_header, t) ==
    /\ IF ~StartsWithAt(auth_header, 1, "Bearer ")
       THEN /\ verified' = [header |-> auth_header, at |-> <<>>, token_data |-> None]
            /\ UNCHANGED <<tokens, now>>
       ELSE LET token == SubSeq(auth_header, 8, Len(auth_header)) IN
            IF ~HasKey(tokens, token)
            THEN /\ verified' = [header |-> auth_header, at |-> <<>>,
                                 token_data |-> None]
                 /\ UNCHANGED <<tokens, now>>
            ELSE /\ now' = t
                 /\ tokens' = IF t > Lookup(tokens, token).expires_at
                               THEN SelectSeq(tokens, LAMBDA e : e[1] # token)
                               ELSE tokens
                 /\ verified' = [header |-> auth_header, at |-> <<t>>,
                                 token_data |->
                                     IF t > Lookup(tokens, token).expires_at
                                     THEN None ELSE Lookup(tokens, token)]
    /\ UNCHANGED <<user_sessions, streams, issued, afree>>
    /\ UNCHANGED <<coreVars, lifeVars>>

\* python afree.py: the module body runs from the top; the imports of lines
\* 7-17 bind their names, and line 24, logging.getLogger(_name_), reads a
\* name that is neither among them, nor a name every module has, nor a
\* builtin, so the import ends there with NameError: no class of the module
\* is defined and no handler is registered
AfreeStart ==
    /\ afree = "not started"
    /\ LET bound == {"__name__", "__doc__", "__package__", "__loader__", "__spec__",
                     "__file__", "__builtins__", "asyncio", "jwt", "logging",
                     "datetime", "Optional", "Dict", "Any", "List", "dataclass",
                     "Server", "stdio_server", "Tool", "TextContent",
                     "INVALID_PARAMS", "INTERNAL_ERROR", "ServerSession"}
           read == <<"logging", "_name_">>
       IN  afree' = IF \A i \in DOMAIN read : read[i] \in bound
                     THEN "serving"
                     ELSE "NameError"
    /\ UNCHANGED <<user_sessions, streams, tokens, now, issued, verified>>
    /\ UNCHANGED <<coreVars, lifeVars>>

NextAccess ==
    \/ \E uid \in Users, request \in 1..MaxRequests : EventStreamBegins(uid, request)
    \/ \E st \in streams : EventStreamEnds(st)
    \/ GetActiveSessions
    \/ \E form \in FormPool, access_token \in TokenPool, t \in TimePool :
          OauthTokenEndpoint(form, access_token, t)
    \/ \E auth_header \in HeaderPool, t \in TimePool : VerifyBearerToken(auth_header, t)
    \/ AfreeStart

SpecAccess == InitAccess /\ [][NextAccess]_vars

(***************************************************************************)
(* Properties of the compiler and the dispatcher                           *)
(***************************************************************************)
HttpMethods == {"get", "post", "put", "delete", "patch"}

Entries == DocEntries(swagger_doc)

\* the entry the call in progress was dispatched to
Target == Entries[call.dispatched]

Dispatched == call # None /\ call.dispatched # 0

\* entry e derives the tool name n
DerivesName(e, n) ==
    /\ IsDict(e.spec)
    /\ IF HasKey(e.spec.obj, "operationId")
       THEN Lookup(e.spec.obj, "operationId") = PyStr(n)
       ELSE n = e.method \o "_" \o Replace(e.path, "/", "_")

\* key k names a parameter of entry e whose location is where
NamesParam(e, k, where) ==
    LET ps == Get(e.spec.obj, "parameters", PyList(<<>>)).arr IN
    \E i \in DOMAIN ps :
        /\ Lookup(ps[i].obj, "name") = PyStr(k)
        /\ Get(ps[i].obj, "in", None) = PyStr(where)

\* s is the JSON text of an object that has an "error" member
IsJsonErrorObject(s) ==
    LET j == json_loads(s) IN
    j.ok /\ IsDict(j.val) /\ HasKey(j.val.obj, "error")

\* C1: parse_swagger_to_tools returns exactly one tool for each (path, key)
\* pair whose key, lower-cased, is get, post, put, delete or patch, and no
\* tool for any other key of a path item.
C1_OneToolPerCompiledMethod ==
    LET compiled == {i \in DOMAIN Entries : Lower(Entries[i].method) \in HttpMethods}
        tools == listed.arr
        Of(i) == {t \in DOMAIN tools :
                     tools[t].path = Entries[i].path /\ tools[t].method = Entries[i].method}
    IN  listed # None =>
        /\ Len(tools) = Cardinality(compiled)
        /\ \A i \in compiled : Cardinality(Of(i)) = 1
        /\ \A t \in DOMAIN tools : \E i \in compiled : t \in Of(i)

\* a document with two keys, one compiled and one not, lists one tool
C1_Witness ==
    /\ Len(Entries) = 2
    /\ \E i \in DOMAIN Entries : Lower(Entries[i].method) \notin HttpMethods
    /\ listed # None
    /\ Len(listed.arr) = 1

\* C2: execute_tool always returns a string and never raises: an unknown
\* tool name, an unsupported method, a non-2xx status and a transport
\* failure each end in a returned JSON-encoded error object.
C2_ExecuteToolNeverRaises ==
    (call # None /\ ret # None) =>
        /\ IsReturned(ret)
        /\ (\/ call.dispatched = 0
            \/ call.request = None
            \/ (call.response # None /\ ~IsResponse(call.response))
            \/ (call.response # None /\ IsResponse(call.response)
                /\ call.response.status_code \notin 200..299))
           => IsJsonErrorObject(ret.returned)

\* C3: a call with a name that no operation of the document derives returns
\* {"error": "Tool <name> not found"}, issues no request and does not raise,
\* whatever keys the path items contain.
C3_MissingToolNotFound ==
    (call # None /\ \A i \in DOMAIN Entries : ~DerivesName(Entries[i], call.tool_name)) =>
        /\ ret = Returned("{\"error\": \"Tool " \o call.tool_name \o " not found\"}")
        /\ call.request = None

\* C4: an operation whose method is GET, POST, PUT, PATCH or DELETE is
\* executed with exactly that verb; POST, PUT and PATCH carry bodyArgs as
\* the JSON body and queryArgs as the query string, GET and DELETE carry
\* queryArgs only.
C4_VerbMatchesMethod ==
    (Dispatched /\ Lower(Target.method) \in HttpMethods) =>
        /\ call.request # None
        /\ call.request.verb = Upper(Target.method)
        /\ call.request.params = PyDict(call.parts.query_params)
        /\ call.request.json =
               IF Lower(Target.method) \in {"post", "put", "patch"}
               THEN PyDict(call.parts.body_data)
               ELSE None

\* the value of url after the path arguments ps[i..] have been substituted
RECURSIVE Substituted(_, _, _)
Substituted(url, ps, i) ==
    IF i > Len(ps) THEN url
    ELSE Substituted(Replace(url, "{" \o ps[i][1] \o "}", str(ps[i][2])), ps, i + 1)

\* C5: for every operation and argument map, every argument key is in
\* exactly one of pathArgs (it names a parameter with in=path), queryArgs
\* (it names a parameter with in=query) and bodyArgs (every other key); each
\* path argument replaces {name} in baseURL+path by the string form of its
\* value, queryArgs are sent as the query string and, for a body-carrying
\* method (POST, PUT, PATCH), bodyArgs are sent as the JSON body.
C5_ArgumentPartition ==
    (Dispatched /\ Lower(Target.method) \in HttpMethods) =>
        LET a  == call.arguments
            pp == call.parts.path_params
            qp == call.parts.query_params
            bd == call.parts.body_data
            In(x, part) == \E j \in DOMAIN part : part[j] = x
        IN  /\ Len(pp) + Len(qp) + Len(bd) = Len(a)
            /\ \A i \in DOMAIN a :
                 /\ In(a[i], pp) <=> NamesParam(Target, a[i][1], "path")
                 /\ In(a[i], qp) <=> (NamesParam(Target, a[i][1], "query")
                                      /\ ~NamesParam(Target, a[i][1], "path"))
                 /\ In(a[i], bd) <=> (~NamesParam(Target, a[i][1], "query")
                                      /\ ~NamesParam(Target, a[i][1], "path"))
            /\ call.request # None
            /\ call.request.url = Substituted(base_url \o Target.path, pp, 1)
            /\ call.request.params = PyDict(qp)
            /\ Lower(Target.method) \in {"post", "put", "patch"} =>
                    call.request.json = PyDict(bd)
            /\ (a = AllArguments /\ Target.spec = NamedOp
                /\ Target.path = "/items/{id}") =>
                 /\ call.request.url = "http://origin/items/5"
                 /\ call.request.params = PyDict(<< <<"q", PyStr("x")>> >>)
                 /\ Lower(Target.method) \in {"post", "put", "patch"} =>
                      call.request.json = PyDict(<< <<"extra", PyStr("y")>> >>)

\* what holds of the partition in the code: the three parts are as C5 says
\* for every dispatched call, and whenever a request is issued it is built
\* from them
PartitionOfIssuedRequests ==
    Dispatched =>
        LET a  == call.arguments
            pp == call.parts.path_params
            qp == call.parts.query_params
            bd == call.parts.body_data
            In(x, part) == \E j \in DOMAIN part : part[j] = x
        IN  /\ Len(pp) + Len(qp) + Len(bd) = Len(a)
            /\ \A i \in DOMAIN a :
                 /\ In(a[i], pp) <=> NamesParam(Target, a[i][1], "path")
                 /\ In(a[i], qp) <=> (NamesParam(Target, a[i][1], "query")
                                      /\ ~NamesParam(Target, a[i][1], "path"))
                 /\ In(a[i], bd) <=> (~NamesParam(Target, a[i][1], "query")
                                      /\ ~NamesParam(Target, a[i][1], "path"))
            /\ call.request # None =>
                 /\ call.request.url = Substituted(base_url \o Target.path, pp, 1)
                 /\ call.request.params = PyDict(qp)
                 /\ call.request.json # None => call.request.json = PyDict(bd)

\* C6: a non-2xx status S ends in a JSON object with an error message and
\* status_code = S; a transport failure ends in a JSON object with an error
\* message and status_code null or absent.
C6_ErrorCarriesStatus ==
    (call # None /\ call.response # None) =>
        LET r == call.response
            j == json_loads(ret.returned)
        IN  (~IsResponse(r) \/ r.status_code \notin 200..299) =>
                /\ IsReturned(ret)
                /\ j.ok
                /\ IsDict(j.val)
                /\ HasKey(j.val.obj, "error")
                /\ IsStr(Lookup(j.val.obj, "error"))
                /\ Get(j.val.obj, "status_code", None) =
                       IF IsResponse(r) THEN PyInt(r.status_code) ELSE None

\* a GET answered with 404
C6_Witness ==
    /\ call # None
    /\ call.response # None
    /\ IsResponse(call.response)
    /\ call.response.status_code = 404
    /\ call.request.verb = "GET"
    /\ IsReturned(ret)
    /\ Lookup(json_loads(ret.returned).val.obj, "status_code") = PyInt(404)

\* C7: a call whose name matches a path-item key outside the supported
\* methods returns {"error": "Method <m> not supported"} and issues no
\* request.
C7_UnsupportedMethod ==
    (Dispatched /\ Lower(Target.method) \notin HttpMethods) =>
        /\ ret = Returned("{\"error\": \"Method " \o Target.method \o " not supported\"}")
        /\ call.request = None
        /\ call.response = None

C7_Witness ==
    /\ Dispatched
    /\ Target.method = "options"
    /\ ret = Returned("{\"error\": \"Method options not supported\"}")

\* C8: on a 2xx response the body is returned re-serialized as
\* pretty-printed JSON when it parses as JSON, and verbatim when it does not.
C8_SuccessBody ==
    (call # None /\ call.response # None /\ IsResponse(call.response)
     /\ call.response.status_code \in 200..299) =>
        LET text == call.response.text
            j    == json_loads(text)
        IN  /\ j.ok => ret = Returned(Dumps(j.val, 2, 0))
            /\ ~j.ok => ret = Returned(text)
            /\ text = "{\"id\":5,\"name\":\"widget\"}" =>
                   ret = Returned("{\n  \"id\": 5,\n  \"name\": \"widget\"\n}")
            /\ text = "OK" => ret = Returned("OK")

\* execute_tool("get_item", {"id": 5}) on GET /items/{id}
C8_Witness ==
    /\ Dispatched
    /\ Target.method = "get"
    /\ call.tool_name = "get_item"
    /\ call.arguments = << <<"id", PyInt(5)>> >>
    /\ call.request.url = "http://origin/items/5"
    /\ ret = Returned("{\n  \"id\": 5,\n  \"name\": \"widget\"\n}")

\* the compiled operations of the document that derive the tool name n
Sharing(n) ==
    {i \in DOMAIN Entries :
        Lower(Entries[i].method) \in HttpMethods /\ DerivesName(Entries[i], n)}

\* C9: when two or more operations derive the same tool name, list_tools
\* lists one tool for each of them, and every execute_tool call with that
\* name is dispatched to the first of them in iteration order (paths, then
\* method keys), never to a later one.
C9_FirstMatchWins ==
    /\ listed # None =>
         \A n \in ToolNamePool(swagger_doc) :
            Cardinality(Sharing(n)) >= 2 =>
                Cardinality({t \in DOMAIN listed.arr : listed.arr[t].name = PyStr(n)})
                = Cardinality(Sharing(n))
    /\ (call # None /\ Cardinality(Sharing(call.tool_name)) >= 2) =>
         /\ call.dispatched \in Sharing(call.tool_name)
         /\ \A i \in Sharing(call.tool_name) : call.dispatched <= i

\* what holds of the lookup in the code: a call that is dispatched goes to
\* the first path-item key, compiled or not, that derives its name
FirstAmongAllKeys ==
    (call # None /\ call.dispatched # 0) =>
        LET deriving == {i \in DOMAIN Entries : DerivesName(Entries[i], call.tool_name)}
        IN  /\ call.dispatched \in deriving
            /\ \A i \in deriving : call.dispatched <= i

\* the converter c no longer serves anybody: it was replaced or never stored,
\* its mcp id was unloaded, or its process has shut down
TornDown(c) ==
    LET o == clients[c].owner IN
    IF o \in Users
    THEN user_converters[o] # c \/ "sse_server" \in stopped
    ELSE o \notin mcp_apps \/ "manager" \in stopped
         \/ mcp_converter[o][Len(mcp_converter[o])] # c

\* C10: every converter that is created has its HTTP client closed exactly
\* once when it is torn down (replaced by a new upload, unloaded, left behind
\* by a failed upload, or alive at process shutdown): never zero times, and
\* never more than once at any time.
C10_ClosedExactlyOnce ==
    \A c \in DOMAIN clients :
        /\ clients[c].closes <= 1
        /\ TornDown(c) => clients[c].closes = 1

(***************************************************************************)
(* Properties of the schema resolver                                       *)
(***************************************************************************)
\* the method fn of the converter of src/server.py has just been applied
Applied(fn) == call # None /\ call.fn = fn

\* C11: resolve_ref and extract_properties_from_schema never raise, whatever
\* JSON-like value stands where a schema, a property schema, a properties
\* map or a composition member is expected: they return a result.
C11_ResolutionNeverRaises ==
    (Applied("resolve_ref") \/ Applied("extract_properties_from_schema")) =>
        IsReturned(ret)

\* what does hold: a value that is not a mapping, wherever resolve_ref meets
\* it first, resolves to the empty schema
NonMappingResolvesToEmpty ==
    (Applied("resolve_ref") /\ ~IsDict(call.arg)) => ret = Returned(PyDict(<<>>))

\* components.schemas of the document the converter was built with
Schemas == SchemasOf(swagger_doc).obj

\* the query and path parameters of an operation, and those of them that
\* declare required: true
InputParams(spec) ==
    SelectSeq(Get(spec.obj, "parameters", PyList(<<>>)).arr,
              LAMBDA p : Get(p.obj, "in", None) \in {PyStr("query"), PyStr("path")})

RequiredParams(spec) ==
    SelectSeq(InputParams(spec),
              LAMBDA p : Get(p.obj, "required", PyBool(FALSE)) = PyBool(TRUE))

ParamNamesOf(params) == [i \in DOMAIN params |-> Lookup(params[i].obj, "name")]

\* the schema of the JSON request body of an operation of OperationPool, None
\* when it has none
BodySchemaOf(spec) ==
    LET body == Get(spec.obj, "requestBody", PyDict(<<>>))
        cont == Get(body.obj, "content", PyDict(<<>>))
        json == Get(cont.obj, "application/json", PyDict(<<>>))
    IN  Get(json.obj, "schema", None)

\* a $ref that no schema of the document answers: the name is not in
\* components.schemas, or the pointer has another prefix
Unresolved(schema) ==
    \/ \E n \in (Range(Keys(Components)) \cup {"Missing"}) : schema = Ref(n) /\ ~HasKey(Schemas, n)
    \/ schema = PyDict(<< <<"$ref", PyStr("#/definitions/A")>> >>)

\* C12: resolve_ref of a pointer #/components/schemas/<name> returns
\* components.schemas[name] when the document has it and the empty schema,
\* without raising, when it has not; a request body whose schema is a $ref
\* that is not resolved adds no property and no required name to the tool,
\* whose input schema then holds what the parameters gave it.
C12_MissingRefIsEmpty ==
    /\ Applied("resolve_ref") =>
          \A n \in (Range(Keys(Components)) \cup {"Missing"}) :
              call.arg = Ref(n) =>
                  ret = Returned(IF HasKey(Schemas, n) THEN Lookup(Schemas, n)
                                 ELSE PyDict(<<>>))
    /\ (Applied("_create_tool_from_spec") /\ Unresolved(BodySchemaOf(call.arg))) =>
          /\ IsReturned(ret)
          /\ Keys(Lookup(ret.returned.inputSchema.obj, "properties").obj)
             = [i \in DOMAIN InputParams(call.arg) |->
                    Lookup(InputParams(call.arg)[i].obj, "name").str]
          /\ Lookup(ret.returned.inputSchema.obj, "required")
             = PyList(ParamNamesOf(RequiredParams(call.arg)))

\* resolve_ref({"$ref": "#/components/schemas/Missing"}) on the document
\* whose components hold other schemas
C12_Witness ==
    /\ Applied("resolve_ref")
    /\ call.arg = Ref("Missing")
    /\ HasKey(Schemas, "UserAddRequest")
    /\ ret = Returned(PyDict(<<>>))

\* the property schema is a leaf: neither an object nor a pointer to one
IsLeaf(prop) ==
    /\ IsDict(prop)
    /\ ~HasKey(prop.obj, "$ref")
    /\ ~HasKey(prop.obj, "properties")
    /\ Get(prop.obj, "type", None) # PyStr("object")

\* the type a leaf declares: its type, or for a nullable leaf (anyOf with
\* "null") the type of the member that is not "null"
DeclaredType(prop) ==
    IF HasKey(prop.obj, "type") THEN Lookup(prop.obj, "type")
    ELSE LET options == Lookup(prop.obj, "anyOf").arr
             typed   == {i \in DOMAIN options :
                            Get(options[i].obj, "type", PyStr("null")) # PyStr("null")}
         IN  Lookup(options[CHOOSE i \in typed : \A j \in typed : i <= j].obj, "type")

\* the components schemas all of whose properties are leaves
FlatSchemas ==
    {n \in Range(Keys(Schemas)) :
        LET props == Get(Lookup(Schemas, n).obj, "properties", PyDict(<<>>)).obj
        IN  \A i \in DOMAIN props : IsLeaf(props[i][2])}

\* C13: the tool compiled from an operation without parameters whose JSON
\* request body is a $ref to a components schema T of leaf properties has
\* exactly T's property names in inputSchema.properties, each with the leaf
\* type T declares, and exactly T's required names, as a set, in
\* inputSchema.required; for UserAddRequest: name and email of type string,
\* age of type integer, required {name, email}.
C13_RefBodyRoundTrip ==
    (Applied("_create_tool_from_spec") /\ InputParams(call.arg) = <<>>) =>
        \A n \in FlatSchemas :
            BodySchemaOf(call.arg) = Ref(n) =>
                LET T        == Lookup(Schemas, n).obj
                    declared == Get(T, "properties", PyDict(<<>>)).obj
                    tool     == ret.returned.inputSchema.obj
                    props    == Lookup(tool, "properties").obj
                IN  /\ IsReturned(ret)
                    /\ Range(Keys(props)) = Range(Keys(declared))
                    /\ Len(props) = Len(declared)
                    /\ \A i \in DOMAIN declared :
                           Lookup(Lookup(props, declared[i][1]).obj, "type")
                           = DeclaredType(declared[i][2])
                    /\ Range(Lookup(tool, "required").arr)
                       = Range(Get(T, "required", PyList(<<>>)).arr)
                    /\ n = "UserAddRequest" =>
                           /\ Keys(props) = <<"name", "email", "age">>
                           /\ Lookup(Lookup(props, "age").obj, "type") = PyStr("integer")
                           /\ Lookup(Lookup(props, "name").obj, "type") = PyStr("string")
                           /\ Range(Lookup(tool, "required").arr)
                              = {PyStr("name"), PyStr("email")}

\* the add_user operation of src/test.mcp_server.py: a request body that is
\* a $ref to UserAddRequest, compiled on the document that holds it
C13_Witness ==
    /\ Applied("_create_tool_from_spec")
    /\ InputParams(call.arg) = <<>>
    /\ BodySchemaOf(call.arg) = Ref("UserAddRequest")
    /\ "UserAddRequest" \in FlatSchemas
    /\ IsReturned(ret)
    /\ Len(Lookup(ret.returned.inputSchema.obj, "required").arr) = 2

\* the schema is {"allOf": [members]} and nothing else
IsAllOf(schema) ==
    /\ IsDict(schema)
    /\ Keys(schema.obj) = <<"allOf">>
    /\ IsList(Lookup(schema.obj, "allOf"))

\* the properties and the required names of the i-th member of an allOf,
\* resolved through $ref
MemberProps(members, i) ==
    Get(ResolveRef(PyDict(Schemas), members[i]).returned.obj, "properties", PyDict(<<>>)).obj

MemberRequired(members, i) ==
    Get(ResolveRef(PyDict(Schemas), members[i]).returned.obj, "required", PyList(<<>>)).arr

\* C14: for a schema allOf:[A, B, ...] the extraction returns the union of
\* the properties of the members, each resolved through $ref (a name that
\* several members declare is typed by the last of them), and a required
\* list without repetitions that holds exactly the required names of the
\* members; the merged schema is of type object with additionalProperties
\* false; for A = {properties {x}, required [x]} and B = {properties {y},
\* required [y]} the result is properties {x, y} and required {x, y}.
C14_AllOfMerge ==
    (Applied("extract_properties_from_schema") /\ IsAllOf(call.arg)) =>
        LET members == Lookup(call.arg.obj, "allOf").arr
            merged  == Flatten(PyDict(Schemas), call.arg, call.order).returned.obj
            props   == ret.returned.properties
            req     == ret.returned.required.arr
        IN  /\ IsReturned(ret)
            /\ Range(Keys(props))
               = UNION {Range(Keys(MemberProps(members, i))) : i \in DOMAIN members}
            /\ \A i \in DOMAIN members :
                  \A k \in Range(Keys(MemberProps(members, i))) :
                      (\A j \in DOMAIN members : j > i => ~HasKey(MemberProps(members, j), k))
                      => Lookup(Lookup(props, k).obj, "type")
                         = Lookup(Lookup(MemberProps(members, i), k).obj, "type")
            /\ Range(req) = UNION {Range(MemberRequired(members, i)) : i \in DOMAIN members}
            /\ Cardinality(Range(req)) = Len(req)
            /\ Lookup(merged, "type") = PyStr("object")
            /\ Lookup(merged, "additionalProperties") = PyBool(FALSE)
            /\ (members = <<Ref("A"), Ref("B")>> /\ HasKey(Schemas, "A")) =>
                   /\ Keys(props) = <<"x", "y">>
                   /\ Range(req) = {PyStr("x"), PyStr("y")}

\* allOf:[A, B] with the set of required names listed as [y, x]
C14_Witness ==
    /\ Applied("extract_properties_from_schema")
    /\ call.arg = PyDict(<< <<"allOf", PyList(<<Ref("A"), Ref("B")>>)>> >>)
    /\ HasKey(Schemas, "A")
    /\ IsReturned(ret)
    /\ Keys(ret.returned.properties) = <<"x", "y">>
    /\ ret.returned.required = PyList(<<PyStr("y"), PyStr("x")>>)

\* an inline object schema: a mapping with a properties map, no $ref and no
\* composition of its own
IsInlineObject(schema) ==
    /\ IsDict(schema)
    /\ \A k \in {"$ref", "allOf", "anyOf", "oneOf"} : ~HasKey(schema.obj, k)
    /\ IsDict(Get(schema.obj, "properties", None))

\* the property schema carries anyOf or oneOf (one of them) with at least
\* one member, every member a mapping
HasAlternatives(prop) ==
    /\ IsDict(prop)
    /\ ~HasKey(prop.obj, "$ref") /\ ~HasKey(prop.obj, "properties")
    /\ ~HasKey(prop.obj, "type")
    /\ HasKey(prop.obj, "anyOf") # HasKey(prop.obj, "oneOf")
    /\ LET members == Get(prop.obj, "anyOf", Get(prop.obj, "oneOf", None)) IN
       /\ IsList(members)
       /\ Len(members.arr) > 0
       /\ \A i \in DOMAIN members.arr : IsDict(members.arr[i])

\* the type of the first member that has a type other than "null", "string"
\* when there is none
FirstNonNull(prop) ==
    LET members == Get(prop.obj, "anyOf", Get(prop.obj, "oneOf", None)).arr
        typed   == {i \in DOMAIN members :
                       Get(members[i].obj, "type", PyStr("null")) # PyStr("null")}
    IN  IF typed = {} THEN PyStr("string")
        ELSE Lookup(members[CHOOSE i \in typed : \A j \in typed : i <= j].obj, "type")

\* every property of the schema just extracted that carries alternatives
\* has the first non-null type, and the extraction of a schema whose only
\* property carries alternatives returns
AlternativesTyped ==
    IsInlineObject(call.arg) =>
        LET declared == Lookup(call.arg.obj, "properties").obj IN
        \A i \in DOMAIN declared :
            HasAlternatives(declared[i][2]) =>
                /\ Len(declared) = 1 => IsReturned(ret)
                /\ IsReturned(ret) =>
                      Lookup(Lookup(ret.returned.properties, declared[i][1]).obj, "type")
                      = FirstNonNull(declared[i][2])

\* C15: a property schema that carries anyOf or oneOf gets as leaf type the
\* type of the first member whose type is not "null", and "string" when
\* every member is null-typed or has no type ({anyOf: [{type: integer},
\* {type: null}]} gets "integer"), in both converters that extract
\* properties (src/server.py and src/test.mcp_server.py).
C15_FirstNonNullType ==
    (Applied("extract_properties_from_schema")
     \/ Applied("test.mcp_server.extract_properties_from_schema")) => AlternativesTyped

\* what holds: the rule, for the converter of src/server.py
FirstNonNullTypeInServer ==
    Applied("extract_properties_from_schema") => AlternativesTyped

\* and for anyOf, whose members all have a type, in src/test.mcp_server.py
FirstNonNullTypeOfAnyOf ==
    (Applied("test.mcp_server.extract_properties_from_schema")
     /\ IsInlineObject(call.arg) /\ IsReturned(ret)) =>
        LET declared == Lookup(call.arg.obj, "properties").obj IN
        \A i \in DOMAIN declared :
            (/\ HasAlternatives(declared[i][2])
             /\ HasKey(declared[i][2].obj, "anyOf")
             /\ \A m \in Range(Lookup(declared[i][2].obj, "anyOf").arr) :
                    HasKey(m.obj, "type")) =>
                Lookup(Lookup(ret.returned.properties, declared[i][1]).obj, "type")
                = FirstNonNull(declared[i][2])

\* the schema carries anyOf or oneOf (one of them, a list) at schema level,
\* and neither $ref nor allOf
HasOptions(schema) ==
    /\ IsDict(schema)
    /\ ~HasKey(schema.obj, "$ref") /\ ~HasKey(schema.obj, "allOf")
    /\ HasKey(schema.obj, "anyOf") # HasKey(schema.obj, "oneOf")
    /\ IsList(Get(schema.obj, "anyOf", Get(schema.obj, "oneOf", None)))

OptionsOf(schema) == Get(schema.obj, "anyOf", Get(schema.obj, "oneOf", None)).arr

\* the member, resolved through $ref, and whether it is an object
OptionSchema(options, i) == ResolveRef(PyDict(Schemas), options[i]).returned.obj

IsObjectOption(options, i) ==
    \/ Get(OptionSchema(options, i), "type", None) = PyStr("object")
    \/ HasKey(OptionSchema(options, i), "properties")

\* the extraction returned the properties and the required names that the
\* mapping items declares
Extracted(items) ==
    /\ IsReturned(ret)
    /\ Keys(ret.returned.properties) = Keys(Get(items, "properties", PyDict(<<>>)).obj)
    /\ ret.returned.required = Get(items, "required", PyList(<<>>))

\* the extraction used the first object member of the options
FirstObjectUsed(options) ==
    LET objects == {i \in DOMAIN options : IsObjectOption(options, i)} IN
    objects # {} =>
        Extracted(OptionSchema(options, CHOOSE i \in objects : \A j \in objects : i <= j))

\* C16: for a schema carrying anyOf or oneOf at schema level the extraction
\* uses the first member, resolved through $ref, that has type object or a
\* properties key, and skips the others; when no member is an object it
\* returns no properties.
C16_FirstObjectMember ==
    (Applied("extract_properties_from_schema") /\ HasOptions(call.arg)) =>
        LET options == OptionsOf(call.arg) IN
        /\ FirstObjectUsed(options)
        /\ (\A i \in DOMAIN options : ~IsObjectOption(options, i)) =>
               /\ IsReturned(ret)
               /\ ret.returned.properties = <<>>

\* what holds: the first object member is used; when there are members and
\* none is an object, the schema is kept and its own properties and required
\* names are returned
FirstObjectElseOwn ==
    (Applied("extract_properties_from_schema") /\ HasOptions(call.arg)
     /\ OptionsOf(call.arg) # <<>>) =>
        LET options == OptionsOf(call.arg) IN
        /\ FirstObjectUsed(options)
        /\ (\A i \in DOMAIN options : ~IsObjectOption(options, i)) =>
               Extracted(call.arg.obj)

\* the description emitted for the property named k
EmittedDescription(k) == Lookup(Lookup(ret.returned.properties, k).obj, "description")

\* C17: the description of a leaf property that the extraction emits is the
\* description of the property schema when it has one, else its title, else
\* the empty string.
C17_DescriptionPrecedence ==
    (Applied("extract_properties_from_schema") /\ IsInlineObject(call.arg)
     /\ IsReturned(ret)) =>
        LET declared == Lookup(call.arg.obj, "properties").obj IN
        \A i \in DOMAIN declared :
            IsLeaf(declared[i][2]) =>
                EmittedDescription(declared[i][1])
                = Get(declared[i][2].obj, "description",
                      Get(declared[i][2].obj, "title", PyStr("")))

\* what holds: a leaf that has only one of the two is described by it, and a
\* leaf that has neither by the empty string
DescriptionOfTheOnlyOne ==
    (Applied("extract_properties_from_schema") /\ IsInlineObject(call.arg)
     /\ IsReturned(ret)) =>
        LET declared == Lookup(call.arg.obj, "properties").obj IN
        \A i \in DOMAIN declared :
            (IsLeaf(declared[i][2])
             /\ ~(HasKey(declared[i][2].obj, "description")
                  /\ HasKey(declared[i][2].obj, "title"))) =>
                EmittedDescription(declared[i][1])
                = Get(declared[i][2].obj, "description",
                      Get(declared[i][2].obj, "title", PyStr("")))

\* the property schema, resolved through $ref, and whether it is an object
ResolvedProp(prop) == ResolveRef(PyDict(Schemas), prop).returned

IsObjectProp(prop) ==
    /\ IsDict(prop)
    /\ \/ ~HasKey(prop.obj, "$ref")
       \/ IsStr(Lookup(prop.obj, "$ref"))
    /\ IsDict(ResolvedProp(prop))
    /\ \/ Get(ResolvedProp(prop).obj, "type", None) = PyStr("object")
       \/ HasKey(ResolvedProp(prop).obj, "properties")

\* emitted, a sequence of properties, holds the extraction of the properties
\* that the object schema declares: the same names, and for each of them
\* that resolves to an object a nested {type: object, properties,
\* additionalProperties: false} with the required names of that object, its
\* properties nested in the same way, down to depth levels
RECURSIVE NestedAsDeclared(_, _, _)
NestedAsDeclared(emitted, object, depth) ==
    LET declared == Get(object.obj, "properties", PyDict(<<>>)).obj IN
    /\ Keys(emitted) = Keys(declared)
    /\ \A i \in DOMAIN declared :
          IsObjectProp(declared[i][2]) =>
              LET nested == emitted[i][2].obj
                  inner  == ResolvedProp(declared[i][2])
              IN  /\ Lookup(nested, "type") = PyStr("object")
                  /\ Lookup(nested, "additionalProperties") = PyBool(FALSE)
                  /\ Get(nested, "required", PyList(<<>>))
                     = Get(inner.obj, "required", PyList(<<>>))
                  /\ depth > 0 =>
                        NestedAsDeclared(Lookup(nested, "properties").obj, inner, depth - 1)

\* the components schemas that have a property resolving to an object
NestingSchemas ==
    {n \in Range(Keys(Schemas)) :
        LET props == Get(Lookup(Schemas, n).obj, "properties", PyDict(<<>>)).obj
        IN  \E i \in DOMAIN props : IsObjectProp(props[i][2])}

\* C18: every property that resolves, through $ref, to an object schema is
\* emitted as a nested schema {type: object, properties,
\* additionalProperties: false} whose properties and required names are
\* those the same extraction gives for that object, at every nesting depth.
C18_NestedObjects ==
    Applied("extract_properties_from_schema") =>
        \A n \in NestingSchemas :
            call.arg = Ref(n) =>
                /\ IsReturned(ret)
                /\ NestedAsDeclared(ret.returned.properties, Lookup(Schemas, n),
                                    RecursionLimit)

\* what holds: the same, for the schemas whose nesting ends (Person in
\* Company, Address in Person)
NestedObjectsOfFiniteDepth ==
    Applied("extract_properties_from_schema") =>
        \A n \in NestingSchemas \ {"Node"} :
            call.arg = Ref(n) =>
                /\ IsReturned(ret)
                /\ NestedAsDeclared(ret.returned.properties, Lookup(Schemas, n),
                                    RecursionLimit)

\* C19: the name of a tool is the operationId of its operation when it has
\* one, else "<method>_<path with every / replaced by _>" (get on
\* /items/{id} gives get__items_{id}), and execute_tool derives the name of
\* each operation by the same rule: a call is dispatched to an operation
\* that derives the name asked for, and is answered "not found" only when
\* no operation derives it.
C19_NameDerivation ==
    /\ listed # None =>
          \A t \in DOMAIN listed.arr :
              LET tool == listed.arr[t] IN
              /\ IsStr(tool.name)
              /\ DerivesName(tool, tool.name.str)
              /\ (tool.path = "/items/{id}" /\ ~HasKey(tool.spec.obj, "operationId")) =>
                     tool.name = PyStr(tool.method \o "__items_{id}")
              /\ HasKey(tool.spec.obj, "operationId") =>
                     tool.name = Lookup(tool.spec.obj, "operationId")
    /\ Dispatched => DerivesName(Target, call.tool_name)
    /\ (call # None /\ call.dispatched = 0 /\ IsReturned(ret)) =>
          \A i \in DOMAIN Entries : ~DerivesName(Entries[i], call.tool_name)

\* execute_tool("get__items_{id}", ...) dispatched to the get operation of
\* /items/{id}, which has no operationId
C19_Witness ==
    /\ listed # None
    /\ \E t \in DOMAIN listed.arr : listed.arr[t].name = PyStr("get__items_{id}")
    /\ Dispatched
    /\ call.tool_name = "get__items_{id}"
    /\ Target.path = "/items/{id}"
    /\ Target.method = "get"
    /\ ~HasKey(Target.spec.obj, "operationId")

\* the parameter declares required: true (the flag of SWAGGER_DOC in
\* src/server.py is the string "true")
DeclaresRequired(param) ==
    Get(param.obj, "required", PyBool(FALSE)) \in {PyBool(TRUE), PyStr("true")}

\* C20: for each parameter of the operation with in = query or in = path
\* the compiled inputSchema has a leaf property named after the parameter
\* (typed by the parameter's schema, "string" by default; described by the
\* parameter's description, else the title of its schema, else ""; when two
\* parameters share a name, by the later one), and the name is appended to
\* inputSchema.required if and only if the parameter declares required:
\* true; a parameter with another location, or with none, adds neither a
\* property nor a required name.
C20_ParameterProperties ==
    (Applied("_create_tool_from_spec") /\ ~HasKey(call.arg.obj, "requestBody")) =>
        LET params   == Get(call.arg.obj, "parameters", PyList(<<>>)).arr
            input    == {i \in DOMAIN params :
                            Get(params[i].obj, "in", None) \in {PyStr("query"), PyStr("path")}}
            schema   == ret.returned.inputSchema.obj
            props    == Lookup(schema, "properties").obj
            required == Lookup(schema, "required").arr
        IN  /\ IsReturned(ret)
            /\ Range(Keys(props)) = {Lookup(params[i].obj, "name").str : i \in input}
            /\ \A i \in input :
                  LET param == params[i].obj
                      sch   == Get(param, "schema", PyDict(<<>>)).obj
                      leaf  == Lookup(props, Lookup(param, "name").str)
                  IN  (\A j \in input : j > i =>
                           Lookup(params[j].obj, "name") # Lookup(param, "name"))
                      => leaf = PyDict(<<
                             <<"type", Get(sch, "type", PyStr("string"))>>,
                             <<"description",
                               Get(param, "description", Get(sch, "title", PyStr("")))>> >>)
            /\ required
               = ParamNamesOf(SelectSeq(params,
                     LAMBDA q : /\ Get(q.obj, "in", None) \in {PyStr("query"), PyStr("path")}
                                /\ DeclaresRequired(q)))

\* parameters h in the header, not required, and q in the query, required:
\* the tool has the one property q, which is required
C20_Witness ==
    /\ Applied("_create_tool_from_spec")
    /\ call.arg = PyDict(<< <<"parameters",
                              PyList(<<Param("h", "header", FALSE),
                                       Param("q", "query", TRUE)>>)>> >>)
    /\ IsReturned(ret)
    /\ Keys(Lookup(ret.returned.inputSchema.obj, "properties").obj) = <<"q">>
    /\ Lookup(ret.returned.inputSchema.obj, "required") = PyList(<<PyStr("q")>>)

(***************************************************************************)
(* Properties of the compiled input schema                                 *)
(***************************************************************************)
\* C21: parameters are processed before the request body and body fields
\* share one flat namespace with them: the names of the query and path
\* parameters come first in inputSchema.properties, and a field of the body
\* schema that has the name of a parameter is left with the body field's
\* schema (its type is the one the body schema declares), not the
\* parameter's; the other parameters keep theirs.
C21_BodyFieldWins ==
    Applied("_create_tool_from_spec") =>
        \A n \in FlatSchemas :
            BodySchemaOf(call.arg) = Ref(n) =>
                LET declared == Get(Lookup(Schemas, n).obj, "properties", PyDict(<<>>)).obj
                    params   == InputParams(call.arg)
                    props    == Lookup(ret.returned.inputSchema.obj, "properties").obj
                IN  /\ IsReturned(ret)
                    /\ SubSeq(Keys(props), 1, Len(params))
                       = [i \in DOMAIN params |-> Lookup(params[i].obj, "name").str]
                    /\ \A i \in DOMAIN declared :
                           Lookup(Lookup(props, declared[i][1]).obj, "type")
                           = DeclaredType(declared[i][2])
                    /\ \A i \in DOMAIN params :
                           ~HasKey(declared, Lookup(params[i].obj, "name").str) =>
                               Lookup(Lookup(props, Lookup(params[i].obj, "name").str).obj,
                                      "type")
                               = Lookup(Lookup(params[i].obj, "schema").obj, "type")

\* a query parameter x of type integer and a body schema A whose field x is
\* of type string: the tool's x is of type string
C21_Witness ==
    /\ Applied("_create_tool_from_spec")
    /\ BodySchemaOf(call.arg) = Ref("A")
    /\ HasKey(Schemas, "A")
    /\ ParamNamesOf(InputParams(call.arg)) = <<PyStr("x")>>
    /\ Lookup(Lookup(InputParams(call.arg)[1].obj, "schema").obj, "type") = PyStr("integer")
    /\ IsReturned(ret)
    /\ Lookup(Lookup(Lookup(ret.returned.inputSchema.obj, "properties").obj, "x").obj,
              "type") = PyStr("string")

C23_ListingAndDispatchAgree ==
    (listed # None /\ call # None) =>
        (call.dispatched # 0
         <=> \E t \in DOMAIN listed.arr : listed.arr[t].name = PyStr(call.tool_name))

\* what does hold: every listed name is dispatched, unless the lookup
\* raises on its way to it
ListedNamesAreDispatched ==
    (listed # None /\ call # None /\ IsReturned(ret)) =>
        ((\E t \in DOMAIN listed.arr : listed.arr[t].name = PyStr(call.tool_name))
         => call.dispatched # 0)

\* C24: in every compiled tool each name of inputSchema.required is a key
\* of inputSchema.properties and is named once, also when a required
\* parameter and the body schema name the same field and when the required
\* list of the body schema names a field the schema does not declare.
C24_RequiredNamesAreProperties ==
    (Applied("_create_tool_from_spec") /\ IsReturned(ret)) =>
        LET props    == Lookup(ret.returned.inputSchema.obj, "properties").obj
            required == Lookup(ret.returned.inputSchema.obj, "required").arr
        IN  /\ \A i \in DOMAIN required :
                   IsStr(required[i]) /\ HasKey(props, required[i].str)
            /\ \A i, j \in DOMAIN required : required[i] = required[j] => i = j

\* what does hold: the names the parameter loop requires are properties
RequiredParametersAreProperties ==
    (Applied("_create_tool_from_spec") /\ IsReturned(ret)
     /\ ~HasKey(call.arg.obj, "requestBody")) =>
        LET props    == Lookup(ret.returned.inputSchema.obj, "properties").obj
            required == Lookup(ret.returned.inputSchema.obj, "required").arr
        IN  \A i \in DOMAIN required : HasKey(props, required[i].str)

\* C25: after close() has been called on a converter, an execute_tool call
\* for an existing tool returns a JSON-encoded error string and does not
\* raise, and no request is issued on the closed client.
C25_ClosedConverterAnswers ==
    (call # None /\ call.dispatched # 0 /\ clients[1].closes > 0) =>
        /\ inflight = None
        /\ IsReturned(ret)
        /\ IsJsonErrorObject(ret.returned)

\* what does hold: the closed client issues no request
ClosedClientIssuesNoRequest ==
    clients[1].closes > 0 => inflight = None

(***************************************************************************)
(* Properties of the registries under concurrent requests                  *)
(***************************************************************************)
\* C26: under any interleaving of upload_spec requests and tool calls of
\* open SSE sessions of one user, no tool call is executed on a converter
\* whose HTTP client has already been closed: a session that obtained its
\* server before a re-upload never dispatches through the converter that the
\* re-upload closed.
C26_NoCallOnClosedConverter ==
    \A s \in DOMAIN sse_sessions :
        sse_sessions[s].last # None => ~sse_sessions[s].last.closed

\* what does hold: a call of a session dispatches through the converter the
\* user's server had when the session connected, whatever was uploaded since
SessionKeepsItsConverter ==
    \A s \in DOMAIN sse_sessions :
        sse_sessions[s].last # None =>
            /\ sse_sessions[s].last.converter = sse_sessions[s].server
            /\ clients[sse_sessions[s].server].owner = sse_sessions[s].user

\* the converters created for mcp id m whose client has not been closed
Unclosed(m) == {c \in Range(mcp_converter[m]) : clients[c].closes = 0}

\* C27: in the dynamic manager, after any sequence of load, unload and list
\* requests, at most one unclosed converter exists per mcp id: an unload
\* followed by a load of the same id does not leave two live converters and
\* two mounts for that id.
C27_OneLiveConverterPerId ==
    \A m \in McpIds : Cardinality(Unclosed(m)) <= 1

\* what does hold: a request that leaves the keys of mcp_apps as they were
\* (a load of a loaded id among them) creates no converter
LoadOfLoadedCreatesNothing ==
    [][mcp_apps' = mcp_apps => mcp_converter' = mcp_converter]_vars

\* what does hold: every loaded id has a converter, the one created last
LoadedIdsHaveAConverter ==
    \A m \in mcp_apps : mcp_converter[m] # <<>>

(***************************************************************************)
(* Properties of the servers that keep track of who is connected           *)
(***************************************************************************)
\* the session ids of the open event streams of uid
OpenSessionIds(uid) == {st.session_id : st \in {x \in streams : x.uid = uid}}

\* C28: in every state user_sessions[uid] holds exactly the session ids of
\* the open event streams of uid, each once; no uid maps to an empty list; a
\* uid whose streams have all ended is absent from user_sessions; and the
\* total_sessions of /admin/sessions, the sum of the lengths of the lists,
\* is the number of open streams.
C28_SessionsAreOpenStreams ==
    /\ \A i, j \in DOMAIN user_sessions :
          user_sessions[i][1] = user_sessions[j][1] => i = j
    /\ \A i \in DOMAIN user_sessions :
          LET l == user_sessions[i][2] IN
          /\ l # <<>>
          /\ Range(l) = OpenSessionIds(user_sessions[i][1])
          /\ \A a, b \in DOMAIN l : l[a] = l[b] => a = b
    /\ \A uid \in Users : OpenSessionIds(uid) = {} <=> ~HasKey(user_sessions, uid)
    /\ \A uid \in Users :
          HasKey(user_sessions, uid) =>
              Len(Lookup(user_sessions, uid)) =
                  Cardinality({x \in streams : x.uid = uid})
    /\ ("total_sessions" \in DOMAIN ret /\ ret.active_users = Keys(user_sessions)
        /\ \A i \in DOMAIN user_sessions :
              ret.sessions[i][2] = Len(user_sessions[i][2]))
          => ret.total_sessions = Cardinality(streams)

\* a user had two streams open at once, the one that began first has ended,
\* and /admin/sessions has answered since
C28_Witness ==
    /\ "total_sessions" \in DOMAIN ret
    /\ ret.total_sessions = 2
    /\ Cardinality(streams) = 1
    /\ \E st \in streams :
          /\ st.request = 2
          /\ user_sessions = <<<<st.uid, <<st.session_id>>>>>>

\* the token the header names, "" when the header does not begin with "Bearer "
BearerOf(header) ==
    IF StartsWithAt(header, 1, "Bearer ") THEN SubSeq(header, 8, Len(header)) ELSE ""

\* the token endpoint issued token for a client_credentials request that
\* carried the configured client id and secret, to expire at expires_at
IssuedFor(token, expires_at) ==
    \E i \in issued :
        /\ i.access_token = token
        /\ i.expires_at = expires_at
        /\ i.form.grant_type = PyStr("client_credentials")
        /\ i.form.client_id = PyStr(OAUTH_CLIENT_ID)
        /\ i.form.client_secret = PyStr(OAUTH_CLIENT_SECRET)

\* C29: verify_bearer_token accepts a bearer token only if the token
\* endpoint issued it for a client_credentials request with the configured
\* client id and secret and its expiry time has not passed; a verification
\* after the expiry rejects the token and removes it from the store, and a
\* token that is not in the store is rejected.
C29_OnlyIssuedUnexpiredTokens ==
    /\ \A e \in Range(tokens) : IssuedFor(e[1], e[2].expires_at)
    /\ verified # None =>
          LET token == BearerOf(verified.header) IN
          /\ verified.token_data # None =>
                /\ StartsWithAt(verified.header, 1, "Bearer ")
                /\ IssuedFor(token, verified.token_data.expires_at)
                /\ verified.at # <<>>
                /\ verified.at[1] <= verified.token_data.expires_at
                /\ HasKey(tokens, token)
          /\ \A i \in issued :
                (i.access_token = token /\ verified.at # <<>>
                 /\ verified.at[1] > i.expires_at) =>
                    /\ verified.token_data = None
                    /\ ~HasKey(tokens, token)
          /\ ~HasKey(tokens, token) => verified.token_data = None

\* a token that was issued, and removed by a verification after its expiry,
\* is presented again and rejected without a look at the clock
C29_Witness ==
    /\ verified # None
    /\ \E i \in issued :
          /\ verified.header = "Bearer " \o i.access_token
          /\ ~HasKey(tokens, i.access_token)
          /\ verified.at = <<>>
          /\ verified.token_data = None

\* what also holds: a token that has left the store never comes back, so it
\* is rejected on every later request
RemovedStaysRemoved ==
    [][\A i \in issued : ~HasKey(tokens, i.access_token) =>
                            ~HasKey(tokens', i.access_token)]_vars

\* a verification has accepted a token at the very second of its expiry
AcceptedAtExpiry ==
    /\ verified # None
    /\ verified.token_data # None
    /\ verified.at = <<verified.token_data.expires_at>>

====
